---- MODULE Spec2Model ----
(***************************************************************************)
(* A model of the data layer of the task / project / notes manager: the    *)
(* storage gateway (server files behind the HTTP route, browser            *)
(* localStorage, fallback policy), and the entity services built on it.    *)
(* Service calls are atomic steps, except where calls overlap: there a     *)
(* call is a step that reads and computes and a step that writes.  The     *)
(* hooks and page handlers that call the services are modelled as well.    *)
(* The availability of the server is an environment variable that is       *)
(* constant during one call.                                               *)
(***************************************************************************)
EXTENDS Integers, Sequences, FiniteSets, TLC

VARIABLES
  useServerStorage,        \* StorageService.config.useServerStorage
  fallbackToLocalStorage,  \* StorageService.config.fallbackToLocalStorage
  serverUp,                \* environment: do fetch() calls reach the route and succeed
  server,                  \* files under DATA_DIR: entity -> file text (partial map)
  localStorage,            \* browser localStorage: key -> text (partial map)
  now,                     \* the wall clock read by new Date()
  nextId,                  \* number of identifiers handed out so far, per kind
  browserNotificationsPermission,  \* NotificationService: Notification.permission
  browserNotifications,    \* ids of the notifications shown by the browser
  appData,                 \* useAppData: the state of the four composed hooks
  inflight,                \* the calls in flight: caller -> the call and what it holds
  written,                 \* history: entity -> <<X>> of the last successful gateway write
  lastOp                   \* history: the last call made and its outcome

vars == <<useServerStorage, fallbackToLocalStorage, serverUp, server, localStorage,
          now, nextId, browserNotificationsPermission, browserNotifications,
          appData, inflight, written, lastOp>>

\* The configuration and the environment, which no service call changes.
envVars == <<useServerStorage, fallbackToLocalStorage, serverUp,
             browserNotificationsPermission>>

(***************************************************************************)
(* Bounds of the model.                                                    *)
(***************************************************************************)
MaxTodos == 2
MaxProjects == 2
MaxNotes == 2
MaxNotifications == 2
MaxClock == 2
MaxVersion == 3
MaxSubtasks == 2
ManySubtasks == 200

(***************************************************************************)
(* JSON values.  A value is an array, an object or null; the text kept in  *)
(* a file or under a localStorage key is the stringified value.            *)
(***************************************************************************)
Null == [kind |-> "null"]
Arr(items) == [kind |-> "array", items |-> items]
Obj(fields) == [kind |-> "object", fields |-> fields]
IsArray(v) == v.kind = "array"

JSONStringify(data) == [text |-> data]
JSONParse(raw) == raw.text

(***************************************************************************)
(* Partial maps (localStorage, the server's data directory).               *)
(***************************************************************************)
Has(m, k) == k \in DOMAIN m
SetItem(m, k, v) == [x \in (DOMAIN m) \cup {k} |-> IF x = k THEN v ELSE m[x]]
EmptyMap == [x \in {} |-> Null]

(***************************************************************************)
(* StorageService                                                          *)
(***************************************************************************)
IsClient == TRUE
basePath == "taskflow_data"

getStorageKey(entity) ==
  IF entity = "metadata" THEN basePath \o "_metadata" ELSE basePath \o "_" \o entity

BackupKey(storageKey) == storageKey \o "_backup"

DefaultSettings ==
  Obj([theme |-> "system", notifications |-> TRUE, completionGoal |-> 5,
       workingHours |-> [start |-> "09:00", end |-> "17:00"],
       useServerStorage |-> TRUE])

\* quietHoursStart / quietHoursEnd are absent from the defaults.
DefaultNotificationPreferences ==
  Obj([enabled |-> TRUE, channels |-> <<"browser">>,
       categories |-> [todo |-> TRUE, project |-> TRUE, note |-> TRUE, system |-> TRUE],
       priorities |-> [low |-> TRUE, medium |-> TRUE, high |-> TRUE],
       quietHoursStart |-> "", quietHoursEnd |-> ""])

EmptyObject == Obj(<<>>)

CollectionEntities == {"todos", "projects", "notes", "notifications"}

getEmptyDataByEntityType(entity) ==
  IF entity \in CollectionEntities THEN Arr(<<>>)
  ELSE IF entity = "settings" THEN DefaultSettings
  ELSE IF entity = "notification_preferences" THEN DefaultNotificationPreferences
  ELSE EmptyObject

(***************************************************************************)
(* The HTTP route /api/storage/[entity].                                   *)
(***************************************************************************)
readData(files, entity) ==
  IF Has(files, entity) THEN JSONParse(files[entity]) ELSE Null

writeData(files, entity, data) == SetItem(files, entity, JSONStringify(data))

GET(files, entity) ==
  LET data == readData(files, entity)
  IN IF data = Null THEN [ok |-> FALSE, status |-> 404, body |-> Null]
     ELSE [ok |-> TRUE, status |-> 200, body |-> data]

POST(files, entity, body) ==
  [ok |-> TRUE, status |-> 200, files |-> writeData(files, entity, JSONParse(body))]

(***************************************************************************)
(* read(): the value returned for an entity from a store                   *)
(* st = [server, localStorage].  It never throws.                          *)
(***************************************************************************)
ReadLocal(st, entity) ==
  LET storageKey == getStorageKey(entity)
  IN IF ~Has(st.localStorage, storageKey) THEN getEmptyDataByEntityType(entity)
     ELSE JSONParse(st.localStorage[storageKey])

read(st, entity) ==
  IF ~IsClient THEN getEmptyDataByEntityType(entity)
  ELSE IF useServerStorage
  THEN IF serverUp
       THEN LET response == GET(st.server, entity)
            IN IF response.ok THEN response.body
               ELSE getEmptyDataByEntityType(entity)
       ELSE IF ~fallbackToLocalStorage THEN getEmptyDataByEntityType(entity)
            ELSE ReadLocal(st, entity)
  ELSE ReadLocal(st, entity)

(***************************************************************************)
(* write(): returns the new store, whether the call threw, the number of   *)
(* warning toasts shown and the number of stores written.                  *)
(***************************************************************************)
\* A gateway that writes locally only when server storage is switched off.
ShouldWriteLocal_ServerOnly(serverWriteSuccessful) ==
  ~serverWriteSuccessful /\ ~useServerStorage

ShouldWriteLocal(serverWriteSuccessful) ==
  ~serverWriteSuccessful /\ (fallbackToLocalStorage \/ ~useServerStorage)

WriteLocal(ls, entity, jsonData) ==
  LET storageKey == getStorageKey(entity)
      backedUp == IF Has(ls, storageKey)
                  THEN SetItem(ls, BackupKey(storageKey), ls[storageKey])
                  ELSE ls
  IN SetItem(backedUp, storageKey, jsonData)

\* A gateway that falls back to localStorage on every failed server write.
WriteEntity_AlwaysFallback(st, entity, data) ==
  LET jsonData == JSONStringify(data)
      serverWriteSuccessful == useServerStorage /\ serverUp
  IN [st |-> [server |-> IF serverWriteSuccessful
                         THEN POST(st.server, entity, jsonData).files ELSE st.server,
              localStorage |-> IF serverWriteSuccessful THEN st.localStorage
                               ELSE WriteLocal(st.localStorage, entity, jsonData)],
      threw |-> FALSE,
      error |-> "",
      toasts |-> IF useServerStorage /\ ~serverUp THEN 1 ELSE 0,
      serverOk |-> serverWriteSuccessful]

WriteEntity(st, entity, data) ==
  LET jsonData == JSONStringify(data)
      tryServer == useServerStorage
      serverWriteSuccessful == tryServer /\ serverUp
      serverFailed == tryServer /\ ~serverUp
      threw == serverFailed /\ ~fallbackToLocalStorage
      server1 == IF serverWriteSuccessful
                 THEN POST(st.server, entity, jsonData).files
                 ELSE st.server
      local1 == IF ~threw /\ ShouldWriteLocal(serverWriteSuccessful)
                THEN WriteLocal(st.localStorage, entity, jsonData)
                ELSE st.localStorage
  IN [st |-> [server |-> server1, localStorage |-> local1],
      threw |-> threw,
      error |-> IF threw THEN "Failed to save " \o entity \o " data" ELSE "",
      toasts |-> IF serverFailed THEN 1 ELSE 0,
      serverOk |-> serverWriteSuccessful]

\* metadata = read("metadata") is {} or the object written before; its only
\* field is lastSync, which is overwritten.
updateMetadata(st) ==
  LET metadata == Obj([lastSync |-> now])
  IN WriteEntity(st, "metadata", metadata)

\* The metadata update that follows a write of another entity.
ThenUpdateMetadata(w, m) == [w EXCEPT !.st = m.st, !.toasts = w.toasts + m.toasts]

AfterWrite(w, entity) ==
  IF w.threw \/ entity = "metadata" THEN w
  ELSE ThenUpdateMetadata(w, updateMetadata(w.st))

write(st, entity, data) ==
  IF ~IsClient THEN [st |-> st, threw |-> FALSE, error |-> "", toasts |-> 0, serverOk |-> FALSE]
  ELSE AfterWrite(WriteEntity(st, entity, data), entity)

Store == [server |-> server, localStorage |-> localStorage]

(***************************************************************************)
(* Values shared by the entity services.  A string field that is absent,   *)
(* undefined or empty is "" (all are falsy and equal to no identifier); a  *)
(* date is a clock value, UndefinedDate when absent and InvalidDate when   *)
(* the string does not parse.                                              *)
(***************************************************************************)
Undefined == ""
UndefinedDate == -1
InvalidDate == -2

WhitespaceOnly == {"", " ", "  "}
trim(str) == IF str \in WhitespaceOnly THEN "" ELSE str

Spread(base, patch) ==
  [f \in (DOMAIN base) \cup (DOMAIN patch) |-> IF f \in DOMAIN patch THEN patch[f] ELSE base[f]]

findIndex(items, id) ==
  LET found == {i \in 1..Len(items) : items[i].id = id}
  IN IF found = {} THEN 0 ELSE CHOOSE i \in found : \A j \in found : i <= j

includes(ids, id) == \E i \in 1..Len(ids) : ids[i] = id

WithoutId(items, id) ==
  LET Keep(item) == item.id # id
  IN SelectSeq(items, Keep)

\* The outcome of a service call on a store: the new store, whether the call
\* returned or threw (and the message), the warning toasts shown, the value
\* returned.
Return(st, toasts, result) ==
  [st |-> st, ok |-> TRUE, error |-> "", toasts |-> toasts, result |-> result]
Throw(st, toasts, error) ==
  [st |-> st, ok |-> FALSE, error |-> error, toasts |-> toasts, result |-> 0]

\* The outcome of a call that ends with the write w: the write's error when
\* it threw, the result otherwise.
AfterSave(w, result) ==
  IF w.threw THEN Throw(w.st, w.toasts, w.error) ELSE Return(w.st, w.toasts, result)

\* The same for a call whose catch block replaces every error by one message.
AfterSaveOr(w, result, error) ==
  IF w.threw THEN Throw(w.st, w.toasts, error) ELSE Return(w.st, w.toasts, result)

\* Sequencing: next, a call made on the store r left, counts only if r
\* returned; the toasts of both are shown.
AndThen(r, next) ==
  IF ~r.ok THEN r ELSE [next EXCEPT !.toasts = @ + r.toasts]

\* The outcome r with every error replaced by one message.
Rethrow(r, error) == IF r.ok THEN r ELSE [r EXCEPT !.error = error]

\* generateId(): an identifier never handed out before.
generateId(kind) == kind \o ToString(nextId[kind] + 1)

(***************************************************************************)
(* TodoService                                                             *)
(***************************************************************************)
MaxTitleLength == 100
MaxDescriptionLength == 500
TodoStatuses == {"pending", "in-progress", "completed"}
Priorities == {"low", "medium", "high"}

getTodos(st) == read(st, "todos").items

getTodoById(st, id) ==
  LET Find(todos) ==
        LET index == findIndex(todos, id)
        IN IF index = 0 THEN <<>> ELSE <<todos[index]>>
  IN Find(getTodos(st))

\* A field of an object, absent when the object does not have it.
Prop(obj, field, absent) == IF field \in DOMAIN obj THEN obj[field] ELSE absent

\* The subtasks, tags and images of a todo are JSON values: absent and null
\* are falsy, an array or an object is truthy.
validateTodo(todo) ==
  LET title == Prop(todo, "title", Undefined)
      description == Prop(todo, "description", Undefined)
      dueDate == Prop(todo, "dueDate", UndefinedDate)
      subtasks == Prop(todo, "subtasks", Null)
      tags == Prop(todo, "tags", Null)
      images == Prop(todo, "images", Null)
      status == Prop(todo, "status", Undefined)
      priority == Prop(todo, "priority", Undefined)
  IN IF title = Undefined \/ Len(trim(title)) = 0 THEN "Todo title is required"
     ELSE IF Len(title) > MaxTitleLength THEN "Todo title must be 100 characters or less"
     ELSE IF description # Undefined /\ Len(description) > MaxDescriptionLength
          THEN "Todo description must be 500 characters or less"
     ELSE IF dueDate # UndefinedDate /\ dueDate = InvalidDate THEN "Invalid due date"
     ELSE IF subtasks # Null /\ ~IsArray(subtasks) THEN "Subtasks must be an array"
     ELSE IF tags # Null /\ ~IsArray(tags) THEN "Tags must be an array"
     ELSE IF images # Null /\ ~IsArray(images) THEN "Images must be an array"
     ELSE IF status # Undefined /\ status \notin TodoStatuses THEN "Invalid status"
     ELSE IF priority # Undefined /\ priority \notin Priorities THEN "Invalid priority"
     ELSE ""

\* { id, ...todoData, createdAt, updatedAt }: createdAt and updatedAt come
\* from two readings of the clock, elapsed apart.
createTodo(st, todoData, elapsed) ==
  LET Create(todos, invalid) ==
        LET newTodo == Spread(Spread([id |-> generateId("t")], todoData),
                              [createdAt |-> now, updatedAt |-> now + elapsed])
        IN IF invalid # "" THEN Throw(st, 0, invalid)
           ELSE AfterSave(write(st, "todos", Arr(Append(todos, newTodo))), newTodo)
  IN Create(getTodos(st), validateTodo(todoData))

updateTodo(st, id, todoData) ==
  LET Update(todos) ==
        LET index == findIndex(todos, id)
            updatedTodo == Spread(Spread(todos[index], todoData), [updatedAt |-> now])
            Save(invalid) ==
              IF invalid # "" THEN Throw(st, 0, invalid)
              ELSE AfterSave(write(st, "todos", Arr([todos EXCEPT ![index] = updatedTodo])),
                             updatedTodo)
        IN IF index = 0 THEN Throw(st, 0, "Todo with id " \o id \o " not found")
           ELSE Save(validateTodo(updatedTodo))
  IN Update(getTodos(st))

deleteTodo(st, id) ==
  LET Delete(todos) ==
        LET filteredTodos == WithoutId(todos, id)
        IN IF Len(filteredTodos) = Len(todos)
           THEN Throw(st, 0, "Todo with id " \o id \o " not found")
           ELSE AfterSave(write(st, "todos", Arr(filteredTodos)), TRUE)
  IN Delete(getTodos(st))

updateTodoStatus(st, id, status) == updateTodo(st, id, [status |-> status])

getTodosByProject(st, projectId) ==
  LET OfProject(todo) == todo.projectId = projectId
  IN SelectSeq(getTodos(st), OfProject)

(***************************************************************************)
(* ProjectService.  The colour, owner, tags, milestones, resources and     *)
(* risks of a project are not part of this model.                          *)
(***************************************************************************)
ProjectStatuses == {"planning", "active", "on-hold", "completed", "archived"}

\* Math.round((completed / total) * 100), for total > 0.
RoundPercent(completed, total) == (200 * completed + total) \div (2 * total)

getProjects(st) == read(st, "projects").items

getProjectById(st, id) ==
  LET Find(projects) ==
        LET index == findIndex(projects, id)
        IN IF index = 0 THEN <<>> ELSE <<projects[index]>>
  IN Find(getProjects(st))

validateProject(project) ==
  IF project.name = Undefined \/ Len(trim(project.name)) = 0 THEN "Project name is required"
  ELSE IF Len(project.name) > MaxTitleLength THEN "Project name must be 100 characters or less"
  ELSE IF project.description # Undefined /\ Len(project.description) > MaxDescriptionLength
       THEN "Project description must be 500 characters or less"
  ELSE IF project.dueDate # UndefinedDate /\ project.dueDate = InvalidDate THEN "Invalid due date"
  ELSE IF project.startDate # UndefinedDate /\ project.startDate = InvalidDate
       THEN "Invalid start date"
  ELSE IF project.startDate # UndefinedDate /\ project.dueDate # UndefinedDate
          /\ project.startDate > project.dueDate
       THEN "Start date must be before due date"
  ELSE IF project.status # Undefined /\ project.status \notin ProjectStatuses
       THEN "Invalid project status"
  ELSE ""

createProject(st, projectData) ==
  LET newProject == [id |-> generateId("p"),
                     name |-> projectData.name,
                     description |-> projectData.description,
                     status |-> IF projectData.status # Undefined
                                THEN projectData.status ELSE "planning",
                     startDate |-> IF projectData.startDate # UndefinedDate
                                   THEN projectData.startDate ELSE now,
                     dueDate |-> projectData.dueDate,
                     todoIds |-> <<>>,
                     progress |-> 0,
                     createdAt |-> now,
                     updatedAt |-> now]
      Create(invalid) ==
        IF invalid # "" THEN Throw(st, 0, invalid)
        ELSE AfterSave(write(st, "projects", Arr(Append(getProjects(st), newProject))),
                       newProject)
  IN Create(validateProject(newProject))

updateProject(st, id, projectData) ==
  LET Update(projects) ==
        LET index == findIndex(projects, id)
            updatedProject == Spread(Spread(projects[index], projectData),
                                     [id |-> id, createdAt |-> projects[index].createdAt,
                                      updatedAt |-> now])
            Save(invalid) ==
              IF invalid # "" THEN Throw(st, 0, invalid)
              ELSE AfterSave(write(st, "projects",
                                   Arr([projects EXCEPT ![index] = updatedProject])),
                             updatedProject)
        IN IF index = 0 THEN Throw(st, 0, "Project with id " \o id \o " not found")
           ELSE Save(validateProject(updatedProject))
  IN Update(getProjects(st))

deleteProject(st, id) ==
  LET Delete(projects) ==
        LET filteredProjects == WithoutId(projects, id)
        IN IF Len(filteredProjects) = Len(projects)
           THEN Throw(st, 0, "Project with id " \o id \o " not found")
           ELSE AfterSave(write(st, "projects", Arr(filteredProjects)), TRUE)
  IN Delete(getProjects(st))

\* The outcome r of a call, returning result instead.
Returning(r, result) == IF r.ok THEN [r EXCEPT !.result = result] ELSE r

updateProjectProgress(st, projectId) ==
  LET IsCompleted(todo) == todo.status = "completed"
      Progress(found) ==
        LET project == found[1]
            Save(progress) ==
              Returning(updateProject(st, projectId, [progress |-> progress]), progress)
        IN IF found = <<>> THEN Throw(st, 0, "Project with id " \o projectId \o " not found")
           ELSE IF Len(project.todoIds) = 0 THEN Save(0)
           ELSE Save(RoundPercent(Len(SelectSeq(getTodosByProject(st, projectId),
                                                IsCompleted)),
                                  Len(project.todoIds)))
  IN Progress(getProjectById(st, projectId))

\* A service without the membership test before the append.
AlreadyInProject_Never(project, todoId) == FALSE

AlreadyInProject(project, todoId) == includes(project.todoIds, todoId)

addTodoToProject(st, projectId, todoId) ==
  LET Add(found, todo) ==
        LET project == found[1]
            updatedTodoIds == Append(project.todoIds, todoId)
            linked == updateTodo(st, todoId, [projectId |-> projectId])
            computed == updateProjectProgress(linked.st, projectId)
            saved == updateProject(computed.st, projectId, [todoIds |-> updatedTodoIds])
        IN IF found = <<>> THEN Throw(st, 0, "Project with id " \o projectId \o " not found")
           ELSE IF todo = <<>> THEN Throw(st, 0, "Todo with id " \o todoId \o " not found")
           ELSE IF AlreadyInProject(project, todoId) THEN Return(st, 0, project)
           ELSE AndThen(linked, AndThen(computed, saved))
  IN Add(getProjectById(st, projectId), getTodoById(st, todoId))

removeTodoFromProject(st, projectId, todoId) ==
  LET NotTheTodo(id) == id # todoId
      Remove(found, todo) ==
        LET project == found[1]
            updatedTodoIds == SelectSeq(project.todoIds, NotTheTodo)
            unlinked == IF todo # <<>> /\ todo[1].projectId = projectId
                        THEN updateTodo(st, todoId, [projectId |-> Undefined])
                        ELSE Return(st, 0, 0)
            computed == updateProjectProgress(unlinked.st, projectId)
            saved == updateProject(computed.st, projectId, [todoIds |-> updatedTodoIds])
        IN IF found = <<>> THEN Throw(st, 0, "Project with id " \o projectId \o " not found")
           ELSE IF ~includes(project.todoIds, todoId) THEN Return(st, 0, project)
           ELSE AndThen(unlinked, AndThen(computed, saved))
  IN Remove(getProjectById(st, projectId), getTodoById(st, todoId))

(***************************************************************************)
(* NotesService.  A note keeps its title, content, version and timestamps; *)
(* images, tags, folders and links to other entities are not part of this  *)
(* model.                                                                  *)
(***************************************************************************)
\* uuidv4(): an identifier never handed out before.
uuidv4(kind) == kind \o ToString(nextId[kind] + 1)

NoteVersionsEntity(noteId) == "note_versions_" \o noteId

getNotes(st) == read(st, "notes").items

\* What read() hands back for the history of a note: an array when the
\* resource exists, the gateway's default for the entity name otherwise.
getNoteVersions(st, noteId) == read(st, NoteVersionsEntity(noteId))

\* [...versions, newVersion] raises a TypeError when versions is not iterable.
createNoteVersion(st, version) ==
  LET newVersion == Spread(version, [id |-> uuidv4("v")])
      Create(versions) ==
        IF ~IsArray(versions) THEN Throw(st, 0, "Failed to create note version")
        ELSE AfterSaveOr(write(st, NoteVersionsEntity(version.noteId),
                               Arr(Append(versions.items, newVersion))),
                         newVersion, "Failed to create note version")
  IN Create(getNoteVersions(st, version.noteId))

\* A deletion that leaves the version history alone.
deleteAllNoteVersions_Kept(st, noteId) == Return(st, 0, 0)

deleteAllNoteVersions(st, noteId) ==
  AfterSaveOr(write(st, NoteVersionsEntity(noteId), Arr(<<>>)), 0,
              "Failed to delete note versions")

\* { ...note, id, createdAt, updatedAt, lastEditedAt, version, contentType }
createNote(st, note) ==
  LET timestamp == now
      newNote == Spread(note,
                   [id |-> uuidv4("n"),
                    createdAt |-> timestamp,
                    updatedAt |-> timestamp,
                    lastEditedAt |-> timestamp,
                    version |-> 1,
                    contentType |-> IF note.contentType # Undefined
                                    THEN note.contentType ELSE "markdown"])
  IN AfterSaveOr(write(st, "notes", Arr(Append(getNotes(st), newNote))), newNote,
                 "Failed to create note")

\* The catch block of updateNote replaces every error raised inside it, the
\* not-found error included, by "Failed to update note".
updateNote(st, id, note) ==
  LET timestamp == now
      Update(notes) ==
        LET noteIndex == findIndex(notes, id)
            currentVersion == IF notes[noteIndex].version = 0 THEN 1
                              ELSE notes[noteIndex].version
            updatedNote == Spread(Spread(notes[noteIndex], note),
                                  [updatedAt |-> timestamp, lastEditedAt |-> timestamp,
                                   version |-> currentVersion + 1])
            version == [noteId |-> id,
                        content |-> notes[noteIndex].content,
                        timestamp |-> IF notes[noteIndex].lastEditedAt # UndefinedDate
                                      THEN notes[noteIndex].lastEditedAt
                                      ELSE notes[noteIndex].updatedAt]
            archived == createNoteVersion(st, version)
            saved == AfterSave(write(archived.st, "notes",
                                     Arr([notes EXCEPT ![noteIndex] = updatedNote])),
                               updatedNote)
        IN IF noteIndex = 0 THEN Throw(st, 0, "Note with id " \o id \o " not found")
           ELSE AndThen(archived, saved)
  IN Rethrow(Update(getNotes(st)), "Failed to update note")

\* Every error raised inside deleteNote, the not-found error included, is
\* replaced by "Failed to delete note".
deleteNote(st, id) ==
  LET Delete(notes) ==
        LET filteredNotes == WithoutId(notes, id)
            cleared == deleteAllNoteVersions(st, id)
            saved == AfterSave(write(cleared.st, "notes", Arr(filteredNotes)), 0)
        IN IF Len(notes) = Len(filteredNotes)
           THEN Throw(st, 0, "Note with id " \o id \o " not found")
           ELSE AndThen(cleared, saved)
  IN Rethrow(Delete(getNotes(st)), "Failed to delete note")

\* The tags and the related notes of a note are lists of strings, absent
\* until the first is added.
addTagToNote_Always(st, noteId, tag) ==
  LET Add(notes) ==
        LET noteIndex == findIndex(notes, noteId)
            currentTags == Prop(notes[noteIndex], "tags", <<>>)
            updatedNote == Spread(notes[noteIndex],
                                  [tags |-> Append(currentTags, tag), updatedAt |-> now])
        IN IF noteIndex = 0 THEN Throw(st, 0, "Note with id " \o noteId \o " not found")
           ELSE AfterSave(write(st, "notes", Arr([notes EXCEPT ![noteIndex] = updatedNote])),
                          updatedNote)
  IN Rethrow(Add(getNotes(st)), "Failed to add tag to note")

addTagToNote(st, noteId, tag) ==
  LET Add(notes) ==
        LET noteIndex == findIndex(notes, noteId)
            currentTags == Prop(notes[noteIndex], "tags", <<>>)
            updatedNote == Spread(notes[noteIndex],
                                  [tags |-> Append(currentTags, tag), updatedAt |-> now])
        IN IF noteIndex = 0 THEN Throw(st, 0, "Note with id " \o noteId \o " not found")
           ELSE IF includes(currentTags, tag) THEN Return(st, 0, notes[noteIndex])
           ELSE AfterSave(write(st, "notes", Arr([notes EXCEPT ![noteIndex] = updatedNote])),
                          updatedNote)
  IN Rethrow(Add(getNotes(st)), "Failed to add tag to note")

removeTagFromNote(st, noteId, tag) ==
  LET Remove(notes) ==
        LET noteIndex == findIndex(notes, noteId)
            updatedNote ==
              Spread(notes[noteIndex],
                     [tags |-> SelectSeq(Prop(notes[noteIndex], "tags", <<>>),
                                         LAMBDA t : t # tag),
                      updatedAt |-> now])
        IN IF noteIndex = 0 THEN Throw(st, 0, "Note with id " \o noteId \o " not found")
           ELSE AfterSave(write(st, "notes", Arr([notes EXCEPT ![noteIndex] = updatedNote])),
                          updatedNote)
  IN Rethrow(Remove(getNotes(st)), "Failed to remove tag from note")

linkNotes(st, noteId, relatedNoteId) ==
  LET Link(notes) ==
        LET noteIndex == findIndex(notes, noteId)
            relatedNotes == Prop(notes[noteIndex], "relatedNotes", <<>>)
            updatedNote == Spread(notes[noteIndex],
                                  [relatedNotes |-> Append(relatedNotes, relatedNoteId),
                                   updatedAt |-> now])
        IN IF noteIndex = 0 THEN Throw(st, 0, "Note with id " \o noteId \o " not found")
           ELSE IF findIndex(notes, relatedNoteId) = 0
                THEN Throw(st, 0, "Related note with id " \o relatedNoteId \o " not found")
           ELSE IF includes(relatedNotes, relatedNoteId) THEN Return(st, 0, notes[noteIndex])
           ELSE AfterSave(write(st, "notes", Arr([notes EXCEPT ![noteIndex] = updatedNote])),
                          updatedNote)
  IN Rethrow(Link(getNotes(st)), "Failed to link notes")

unlinkNotes(st, noteId, relatedNoteId) ==
  LET Unlink(notes) ==
        LET noteIndex == findIndex(notes, noteId)
            updatedNote ==
              Spread(notes[noteIndex],
                     [relatedNotes |-> SelectSeq(Prop(notes[noteIndex], "relatedNotes", <<>>),
                                                 LAMBDA id : id # relatedNoteId),
                      updatedAt |-> now])
        IN IF noteIndex = 0 THEN Throw(st, 0, "Note with id " \o noteId \o " not found")
           ELSE AfterSave(write(st, "notes", Arr([notes EXCEPT ![noteIndex] = updatedNote])),
                          updatedNote)
  IN Rethrow(Unlink(getNotes(st)), "Failed to unlink notes")

(***************************************************************************)
(* NotificationService.  The actions, expiry and source of a notification  *)
(* are not part of this model.                                             *)
(***************************************************************************)
MinutesPerHour == 60

getNotifications(st) == read(st, "notifications").items

areBrowserNotificationsAllowed == browserNotificationsPermission = "granted"

getDefaultPreferences == DefaultNotificationPreferences.fields

\* Read from localStorage directly, whatever the storage mode.
getPreferencesSync(st) ==
  LET key == "taskflow_data_notification_preferences"
  IN IF ~Has(st.localStorage, key) THEN getDefaultPreferences
     ELSE JSONParse(st.localStorage[key]).fields

\* "HH:MM".split(":") and parseInt, for the clock times used in this model;
\* any other string is not of the form HH:MM.
ClockTimes == {"06:00", "09:00", "17:00", "22:00"}
split(time) ==
  IF time = "06:00" THEN <<6, 0>>
  ELSE IF time = "09:00" THEN <<9, 0>>
  ELSE IF time = "17:00" THEN <<17, 0>>
  ELSE IF time = "22:00" THEN <<22, 0>>
  ELSE <<time>>

\* A check that takes every interval for one within a day.
isInQuietHours_SameDay(preferences, nowMinutes) ==
  IF preferences.quietHoursStart = Undefined \/ preferences.quietHoursEnd = Undefined
  THEN FALSE
  ELSE LET startParts == split(preferences.quietHoursStart)
           endParts == split(preferences.quietHoursEnd)
           startMinutes == startParts[1] * MinutesPerHour + startParts[2]
           endMinutes == endParts[1] * MinutesPerHour + endParts[2]
       IN IF Len(startParts) # 2 \/ Len(endParts) # 2 THEN FALSE
          ELSE nowMinutes >= startMinutes /\ nowMinutes <= endMinutes

isInQuietHours(preferences, nowMinutes) ==
  IF preferences.quietHoursStart = Undefined \/ preferences.quietHoursEnd = Undefined
  THEN FALSE
  ELSE LET startParts == split(preferences.quietHoursStart)
           endParts == split(preferences.quietHoursEnd)
           startMinutes == startParts[1] * MinutesPerHour + startParts[2]
           endMinutes == endParts[1] * MinutesPerHour + endParts[2]
       IN IF Len(startParts) # 2 \/ Len(endParts) # 2 THEN FALSE
          ELSE IF startMinutes <= endMinutes
          THEN nowMinutes >= startMinutes /\ nowMinutes <= endMinutes
          ELSE nowMinutes >= startMinutes \/ nowMinutes <= endMinutes

\* A trigger that does not look at the priority of the notification.
triggerBrowserNotification_AnyPriority(st, notification, nowMinutes) ==
  LET preferences == getPreferencesSync(st)
  IN /\ areBrowserNotificationsAllowed
     /\ preferences.enabled
     /\ (notification.category = Undefined \/ preferences.categories[notification.category])
     /\ ~isInQuietHours(preferences, nowMinutes)

\* TRUE when new Notification(...) is reached.
triggerBrowserNotification(st, notification, nowMinutes) ==
  LET preferences == getPreferencesSync(st)
  IN /\ areBrowserNotificationsAllowed
     /\ preferences.enabled
     /\ (notification.category = Undefined \/ preferences.categories[notification.category])
     /\ preferences.priorities[notification.priority]
     /\ ~isInQuietHours(preferences, nowMinutes)

\* The result tells the notification stored and whether the browser showed it.
createNotification(st, notification, nowMinutes) ==
  LET newNotification == [id |-> uuidv4("m"),
                          title |-> notification.title,
                          message |-> notification.message,
                          type |-> notification.type,
                          priority |-> notification.priority,
                          category |-> notification.category,
                          timestamp |-> now,
                          read |-> FALSE]
      Created(w) ==
        IF w.threw THEN Throw(w.st, w.toasts, "Failed to create notification")
        ELSE Return(w.st, w.toasts,
                    [notification |-> newNotification,
                     shown |-> triggerBrowserNotification(w.st, newNotification, nowMinutes)])
  IN Created(write(st, "notifications", Arr(Append(getNotifications(st), newNotification))))

\* Every error raised inside deleteNotification, the not-found error
\* included, is replaced by "Failed to delete notification".
deleteNotification(st, id) ==
  LET Delete(notifications) ==
        LET filteredNotifications == WithoutId(notifications, id)
        IN IF Len(notifications) = Len(filteredNotifications)
           THEN Throw(st, 0, "Notification with id " \o id \o " not found")
           ELSE AfterSave(write(st, "notifications", Arr(filteredNotifications)), 0)
  IN Rethrow(Delete(getNotifications(st)), "Failed to delete notification")

markAsRead(st, id) ==
  LET Mark(notifications) ==
        LET index == findIndex(notifications, id)
            updatedNotification == [notifications[index] EXCEPT !.read = TRUE]
        IN IF index = 0 THEN Throw(st, 0, "Notification with id " \o id \o " not found")
           ELSE AfterSave(write(st, "notifications",
                                Arr([notifications EXCEPT ![index] = updatedNotification])),
                          updatedNotification)
  IN Rethrow(Mark(getNotifications(st)), "Failed to mark notification as read")

markAllAsRead(st) ==
  LET Mark(notifications) ==
        LET updatedNotifications ==
              [i \in 1..Len(notifications) |-> [notifications[i] EXCEPT !.read = TRUE]]
        IN AfterSaveOr(write(st, "notifications", Arr(updatedNotifications)), 0,
                       "Failed to mark all notifications as read")
  IN Mark(getNotifications(st))

\* getPreferences never takes its catch branch: read does not throw.
getPreferences(st) == read(st, "notification_preferences").fields

updatePreferences(st, preferences) ==
  LET updatedPreferences == Spread(getPreferences(st), preferences)
  IN AfterSaveOr(write(st, "notification_preferences", Obj(updatedPreferences)),
                 updatedPreferences, "Failed to update notification preferences")

(***************************************************************************)
(* Initial state: nothing stored, a configuration chosen at construction.  *)
(***************************************************************************)
NoOp == [op |-> "none", repeat |-> FALSE, args |-> <<>>,
         ok |-> FALSE, error |-> "", toasts |-> 0, result |-> 0]

\* The record of a call: its name and arguments, whether it returned (ok) or
\* threw (error), the warning toasts it showed and what it returned.  repeat
\* tells that the previous call was the same call and returned.
Call(name, args, ok, error, toasts, result) ==
  [op |-> name,
   repeat |-> (lastOp.op = name /\ lastOp.ok /\ lastOp.args = args),
   args |-> args, ok |-> ok, error |-> error, toasts |-> toasts, result |-> result]

IdKinds == {"t", "p", "n", "v", "m", "s"}

StorageEntities == {"todos", "settings"}

AllEntities ==
  {"todos", "projects", "notes", "notifications", "settings", "metadata",
   "notification_preferences", "note_versions_n1", "note_versions_n2"}

\* The hooks before their mount effects have run: nothing loaded, every
\* loading flag set, no error (null, written "").
NoError == ""
InitialAppData ==
  [todoState |-> [todos |-> <<>>, loading |-> TRUE, error |-> NoError],
   projectState |-> [projects |-> <<>>, loading |-> TRUE, error |-> NoError],
   notesState |-> [notes |-> <<>>, loading |-> TRUE, error |-> NoError],
   settings |-> Null, loading |-> TRUE, error |-> NoError]

\* Two callers (event handlers, effects) may have a call in flight each.
Callers == {"a", "b"}
NoCall == [op |-> "none", args |-> <<>>]
Idle == [pc |-> "idle", call |-> NoCall, read |-> Null, toWrite |-> Null,
         ok |-> FALSE, result |-> 0]
NoCalls == [c \in Callers |-> Idle]

Init ==
  /\ useServerStorage \in BOOLEAN
  /\ fallbackToLocalStorage \in BOOLEAN
  /\ serverUp \in BOOLEAN
  /\ server = EmptyMap
  /\ localStorage = EmptyMap
  /\ now = 0
  /\ nextId = [kind \in IdKinds |-> 0]
  /\ browserNotificationsPermission \in {"granted", "denied"}
  /\ browserNotifications = {}
  /\ appData = InitialAppData
  /\ inflight = NoCalls
  /\ written = [e \in StorageEntities |-> <<>>]
  /\ lastOp = NoOp

(***************************************************************************)
(* Calls of the storage gateway itself.                                    *)
(***************************************************************************)
SampleData(entity) ==
  IF entity = "settings"
  THEN {Obj([theme |-> "dark", notifications |-> FALSE, completionGoal |-> 3,
             workingHours |-> [start |-> "08:00", end |-> "16:00"],
             useServerStorage |-> FALSE])}
  ELSE {Arr(<<>>), Arr(<<"a">>), Null}

StorageWrite(entity, data) ==
  LET w == write(Store, entity, data)
  IN /\ server' = w.st.server
     /\ localStorage' = w.st.localStorage
     /\ written' = [written EXCEPT ![entity] = IF w.threw THEN <<>> ELSE <<data>>]
     /\ lastOp' = Call("write", <<entity, data>>, ~w.threw, w.error, w.toasts,
                       [useServerStorage |-> useServerStorage,
                        fallbackToLocalStorage |-> fallbackToLocalStorage,
                        serverOk |-> w.serverOk])
     /\ UNCHANGED <<inflight, appData, envVars, now, nextId, browserNotifications>>

\* The resource is missing: the route answers 404, or the local key is absent.
MissingResource(st, entity) ==
  IF useServerStorage /\ serverUp THEN GET(st.server, entity).status = 404
  ELSE IF useServerStorage /\ ~fallbackToLocalStorage THEN FALSE
  ELSE ~Has(st.localStorage, getStorageKey(entity))

StorageRead(entity) ==
  /\ lastOp' = Call("read", <<entity>>, TRUE, "", 0,
                    [data |-> read(Store, entity),
                     missing |-> MissingResource(Store, entity)])
  /\ UNCHANGED <<inflight, appData, envVars, server, localStorage, now, nextId, browserNotifications,
               written>>

\* Environment: the server (or the network) goes down and comes back.
ServerFails ==
  /\ serverUp
  /\ serverUp' = FALSE
  /\ UNCHANGED <<inflight, appData, useServerStorage, fallbackToLocalStorage, browserNotificationsPermission,
                 server, localStorage, now, nextId, browserNotifications, written, lastOp>>

ServerRecovers ==
  /\ ~serverUp
  /\ serverUp' = TRUE
  /\ UNCHANGED <<inflight, appData, useServerStorage, fallbackToLocalStorage, browserNotificationsPermission,
                 server, localStorage, now, nextId, browserNotifications, written, lastOp>>

NextStorage ==
  \/ \E entity \in StorageEntities : \E data \in SampleData(entity) : StorageWrite(entity, data)
  \/ \E entity \in AllEntities : StorageRead(entity)
  \/ ServerFails
  \/ ServerRecovers

SpecStorage == Init /\ [][NextStorage]_vars

(***************************************************************************)
(* Calls of the todo and project services.                                 *)
(***************************************************************************)
TodoIds == {"t" \o ToString(i) : i \in 1..MaxTodos}
ProjectIds == {"p" \o ToString(i) : i \in 1..MaxProjects}

\* The effect of a call with outcome r on the stores, and its record.
Outcome(r, name, args, result) ==
  /\ server' = r.st.server
  /\ localStorage' = r.st.localStorage
  /\ lastOp' = Call(name, args, r.ok, r.error, r.toasts, result)

CreateTodo(todoData, elapsed) ==
  /\ nextId["t"] < MaxTodos
  /\ now + elapsed <= MaxClock
  /\ LET r == createTodo(Store, todoData, elapsed)
     IN /\ Outcome(r, "createTodo", <<todoData>>, 0)
        /\ nextId' = IF validateTodo(todoData) = "" THEN [nextId EXCEPT !["t"] = @ + 1]
                     ELSE nextId
  /\ now' = now + elapsed
  /\ UNCHANGED <<inflight, appData, envVars, browserNotifications, written>>

UpdateTodoStatus(id, status) ==
  /\ Outcome(updateTodoStatus(Store, id, status), "updateTodoStatus", <<id, status>>, 0)
  /\ UNCHANGED <<inflight, appData, envVars, now, nextId, browserNotifications, written>>

DeleteTodo(id) ==
  /\ Outcome(deleteTodo(Store, id), "deleteTodo", <<id>>, 0)
  /\ UNCHANGED <<inflight, appData, envVars, now, nextId, browserNotifications, written>>

CreateProject(projectData) ==
  /\ nextId["p"] < MaxProjects
  /\ Outcome(createProject(Store, projectData), "createProject", <<projectData>>, 0)
  /\ nextId' = [nextId EXCEPT !["p"] = @ + 1]
  /\ UNCHANGED <<inflight, appData, envVars, now, browserNotifications, written>>

DeleteProject(id) ==
  /\ Outcome(deleteProject(Store, id), "deleteProject", <<id>>, 0)
  /\ UNCHANGED <<inflight, appData, envVars, now, nextId, browserNotifications, written>>

AddTodoToProject(projectId, todoId) ==
  /\ Outcome(addTodoToProject(Store, projectId, todoId), "addTodoToProject",
             <<projectId, todoId>>, 0)
  /\ UNCHANGED <<inflight, appData, envVars, now, nextId, browserNotifications, written>>

RemoveTodoFromProject(projectId, todoId) ==
  /\ Outcome(removeTodoFromProject(Store, projectId, todoId), "removeTodoFromProject",
             <<projectId, todoId>>, 0)
  /\ UNCHANGED <<inflight, appData, envVars, now, nextId, browserNotifications, written>>

UpdateProjectProgress(projectId) ==
  /\ LET r == updateProjectProgress(Store, projectId)
     IN Outcome(r, "updateProjectProgress", <<projectId>>, r.result)
  /\ UNCHANGED <<inflight, appData, envVars, now, nextId, browserNotifications, written>>

\* Todos are created outside any project; membership comes from
\* addTodoToProject / removeTodoFromProject only.
UnlinkedTodoInputs ==
  {[title |-> "a", description |-> Undefined, status |-> status, priority |-> "medium",
    dueDate |-> UndefinedDate, projectId |-> Undefined] : status \in {"pending", "completed"}}

\* What the todo form creates: useTodos.addTodo with the default status.
PendingTodoInputs == {todoData \in UnlinkedTodoInputs : todoData.status = "pending"}

ProjectInputs ==
  {[name |-> "P", description |-> Undefined, status |-> Undefined,
    startDate |-> UndefinedDate, dueDate |-> UndefinedDate]}

NextProject ==
  \/ \E todoData \in PendingTodoInputs : CreateTodo(todoData, 0)
  \/ \E projectData \in ProjectInputs : CreateProject(projectData)
  \/ \E id \in TodoIds : \E status \in TodoStatuses : UpdateTodoStatus(id, status)
  \/ \E projectId \in ProjectIds : \E todoId \in TodoIds : AddTodoToProject(projectId, todoId)
  \/ \E projectId \in ProjectIds : \E todoId \in TodoIds :
       RemoveTodoFromProject(projectId, todoId)
  \/ \E projectId \in ProjectIds : UpdateProjectProgress(projectId)

\* The services run in the configuration of the exported storageService
\* (server storage with fallback), with a server that answers.
InitWorking ==
  /\ Init
  /\ useServerStorage /\ fallbackToLocalStorage /\ serverUp
  /\ browserNotificationsPermission = "granted"

SpecProject == InitWorking /\ [][NextProject]_vars

\* Membership changes only.
NextMembership ==
  \/ \E todoData \in UnlinkedTodoInputs : CreateTodo(todoData, 0)
  \/ \E projectData \in ProjectInputs : CreateProject(projectData)
  \/ \E projectId \in ProjectIds : \E todoId \in TodoIds : AddTodoToProject(projectId, todoId)
  \/ \E projectId \in ProjectIds : \E todoId \in TodoIds :
       RemoveTodoFromProject(projectId, todoId)

SpecMembership == InitWorking /\ [][NextMembership]_vars

(***************************************************************************)
(* Calls of the notes and notification services, and the deletes of all    *)
(* four collections.                                                       *)
(***************************************************************************)
NoteIds == {"n" \o ToString(i) : i \in 1..MaxNotes}
NotificationIds == {"m" \o ToString(i) : i \in 1..MaxNotifications}

Tick ==
  /\ now < MaxClock
  /\ now' = now + 1
  /\ lastOp' = Call("tick", <<>>, TRUE, "", 0, 0)
  /\ UNCHANGED <<inflight, appData, envVars, server, localStorage, nextId, browserNotifications, written>>

CreateNote(note) ==
  /\ nextId["n"] < MaxNotes
  /\ Outcome(createNote(Store, note), "createNote", <<note>>, 0)
  /\ nextId' = [nextId EXCEPT !["n"] = @ + 1]
  /\ UNCHANGED <<inflight, appData, envVars, now, browserNotifications, written>>

\* uuidv4() is called for the history entry whenever the note is found.
UpdateNote(id, note) ==
  /\ nextId["v"] < MaxVersion
  /\ Outcome(updateNote(Store, id, note), "updateNote", <<id, note>>, 0)
  /\ nextId' = IF findIndex(getNotes(Store), id) # 0 THEN [nextId EXCEPT !["v"] = @ + 1]
               ELSE nextId
  /\ UNCHANGED <<inflight, appData, envVars, now, browserNotifications, written>>

DeleteNote(id) ==
  /\ Outcome(deleteNote(Store, id), "deleteNote", <<id>>, 0)
  /\ UNCHANGED <<inflight, appData, envVars, now, nextId, browserNotifications, written>>

CreateNotification(notification, nowMinutes) ==
  /\ nextId["m"] < MaxNotifications
  /\ LET r == createNotification(Store, notification, nowMinutes)
     IN /\ Outcome(r, "createNotification", <<notification, nowMinutes>>, 0)
        /\ browserNotifications' = IF r.ok /\ r.result.shown
                                   THEN browserNotifications \cup {r.result.notification.id}
                                   ELSE browserNotifications
  /\ nextId' = [nextId EXCEPT !["m"] = @ + 1]
  /\ UNCHANGED <<inflight, appData, envVars, now, written>>

DeleteNotification(id) ==
  /\ Outcome(deleteNotification(Store, id), "deleteNotification", <<id>>, 0)
  /\ UNCHANGED <<inflight, appData, envVars, now, nextId, browserNotifications, written>>

NoteInputs ==
  {[title |-> "N", content |-> content, contentType |-> Undefined] : content \in {"a", "b"}}

NotePatches == {[content |-> content] : content \in {"b", "c"}}

NotificationInputs ==
  {[title |-> "T", message |-> "due", type |-> "info", priority |-> priority,
    category |-> "todo"] : priority \in {"medium", "high"}}

SampleMinutes == {0, 720}

NextNotes ==
  \/ \E note \in NoteInputs : CreateNote(note)
  \/ \E id \in NoteIds : \E note \in NotePatches : UpdateNote(id, note)
  \/ \E id \in NoteIds : DeleteNote(id)
  \/ Tick

SpecNotes == InitWorking /\ [][NextNotes]_vars

NextDelete ==
  \/ \E todoData \in PendingTodoInputs : CreateTodo(todoData, 0)
  \/ \E projectData \in ProjectInputs : CreateProject(projectData)
  \/ \E note \in NoteInputs : CreateNote(note)
  \/ \E notification \in NotificationInputs : \E nowMinutes \in SampleMinutes :
       CreateNotification(notification, nowMinutes)
  \/ \E id \in TodoIds : DeleteTodo(id)
  \/ \E id \in ProjectIds : DeleteProject(id)
  \/ \E id \in NoteIds : DeleteNote(id)
  \/ \E id \in NotificationIds : DeleteNotification(id)

SpecDelete == InitWorking /\ [][NextDelete]_vars

(***************************************************************************)
(* The notification service with its preferences, in every configuration   *)
(* of the gateway.                                                         *)
(***************************************************************************)
UpdatePreferences(preferences) ==
  /\ Outcome(updatePreferences(Store, preferences), "updatePreferences", <<preferences>>, 0)
  /\ UNCHANGED <<inflight, appData, envVars, now, nextId, browserNotifications, written>>

PreferencePatches ==
  {[enabled |-> FALSE],
   [categories |-> [todo |-> FALSE, project |-> TRUE, note |-> TRUE, system |-> TRUE]],
   [priorities |-> [low |-> TRUE, medium |-> TRUE, high |-> FALSE]],
   [quietHoursStart |-> "22:00", quietHoursEnd |-> "06:00"],
   [quietHoursStart |-> "09:00", quietHoursEnd |-> "17:00"],
   [quietHoursEnd |-> Undefined]}

\* 03:00, 12:00 and 23:30 as minutes of the day.
NextNotifications ==
  \/ \E preferences \in PreferencePatches : UpdatePreferences(preferences)
  \/ \E notification \in NotificationInputs : \E nowMinutes \in {180, 720, 1410} :
       CreateNotification(notification, nowMinutes)

SpecNotifications == Init /\ [][NextNotifications]_vars

(***************************************************************************)
(* The tags and relations of notes.  New notes come without tags or with   *)
(* one tag.                                                                *)
(***************************************************************************)
NoteArrayCall(op, noteId, value) ==
  /\ Outcome(CASE op = "addTagToNote" -> addTagToNote(Store, noteId, value)
               [] op = "removeTagFromNote" -> removeTagFromNote(Store, noteId, value)
               [] op = "linkNotes" -> linkNotes(Store, noteId, value)
               [] op = "unlinkNotes" -> unlinkNotes(Store, noteId, value),
             op, <<noteId, value>>, 0)
  /\ UNCHANGED <<inflight, appData, envVars, now, nextId, browserNotifications, written>>

NextNoteArrays ==
  \/ \E note \in {[title |-> "N", content |-> "a", contentType |-> Undefined],
                  [title |-> "N", content |-> "a", contentType |-> Undefined,
                   tags |-> <<"x">>]} : CreateNote(note)
  \/ \E op \in {"addTagToNote", "removeTagFromNote"} : \E noteId \in NoteIds :
       \E tag \in {"x", "y"} : NoteArrayCall(op, noteId, tag)
  \/ \E op \in {"linkNotes", "unlinkNotes"} : \E noteId \in NoteIds :
       \E relatedNoteId \in NoteIds : NoteArrayCall(op, noteId, relatedNoteId)

SpecNoteArrays == InitWorking /\ [][NextNoteArrays]_vars

(***************************************************************************)
(* Requests to the HTTP route, for any entity name.  A name is the         *)
(* sequence of its characters; requests carry no filename.  The directory  *)
(* of an entity exists when its data file does, and may or may not exist   *)
(* otherwise.  The record of a request lists the fs calls it made.         *)
(***************************************************************************)
AllowedChars ==
  {"a", "b", "c", "d", "e", "f", "g", "h", "i", "j", "k", "l", "m", "n",
   "o", "p", "q", "r", "s", "t", "u", "v", "w", "x", "y", "z",
   "A", "B", "C", "D", "E", "F", "G", "H", "I", "J", "K", "L", "M", "N",
   "O", "P", "Q", "R", "S", "T", "U", "V", "W", "X", "Y", "Z",
   "0", "1", "2", "3", "4", "5", "6", "7", "8", "9", "_", "-"}

\* entity.replace(/[^a-zA-Z0-9_-]/g, "")
sanitizedEntity(entity) == SelectSeq(entity, LAMBDA c : c \in AllowedChars)

\* A route that takes every name.
IsValidEntity_Any(entity) == TRUE

IsValidEntity(entity) == sanitizedEntity(entity) = entity

RECURSIVE Join(_)
Join(chars) == IF chars = <<>> THEN "" ELSE Head(chars) \o Join(Tail(chars))

FsCall(call, path) == [call |-> call, path |-> path]

\* getFilePath: the fs calls it makes for the directory of the entity.
getFilePath(entity, dirExists) ==
  IF dirExists THEN <<FsCall("existsSync", entity)>>
  ELSE <<FsCall("existsSync", entity), FsCall("mkdirSync", entity)>>

RouteGET(chars, operation, dirExists) ==
  /\ Has(server, Join(sanitizedEntity(chars))) => dirExists
  /\ LET entity == Join(sanitizedEntity(chars))
         file == entity \o "/data.json"
         Respond(status, fs) ==
           lastOp' = Call("GET", <<chars, operation>>, status = 200,
                          IF status = 200 THEN ""
                          ELSE IF status = 400 THEN "Invalid entity name"
                          ELSE "No data found for " \o entity,
                          0, [status |-> status, fs |-> fs])
     IN IF ~IsValidEntity(chars) THEN Respond(400, <<>>)
        ELSE IF operation = "exists"
        THEN Respond(200, getFilePath(entity, dirExists) \o <<FsCall("existsSync", file)>>)
        ELSE IF ~Has(server, entity)
        THEN Respond(404, getFilePath(entity, dirExists) \o <<FsCall("existsSync", file)>>)
        ELSE Respond(GET(server, entity).status,
                     getFilePath(entity, dirExists)
                       \o <<FsCall("existsSync", file), FsCall("readFileSync", file)>>)
  /\ UNCHANGED <<inflight, appData, envVars, server, localStorage, now, nextId, browserNotifications,
                 written>>

\* The body of a backup request is { timestamp }, of a restore request
\* { backupId }, of a write request the data.
RoutePOST(chars, operation, body, dirExists) ==
  /\ Has(server, Join(sanitizedEntity(chars))) => dirExists
  /\ LET entity == Join(sanitizedEntity(chars))
         file == entity \o "/data.json"
         Respond(status, fs, files) ==
           /\ lastOp' = Call("POST", <<chars, operation, body>>, status = 200,
                             IF status = 200 THEN ""
                             ELSE IF status = 400 THEN "Invalid entity name"
                             ELSE IF operation = "backup"
                             THEN "Failed to create backup for " \o entity
                             ELSE "Failed to restore backup for " \o entity,
                             0, [status |-> status, fs |-> fs])
           /\ server' = files
     IN IF ~IsValidEntity(chars) THEN Respond(400, <<>>, server)
        ELSE IF operation = "backup"
        THEN IF ~Has(server, entity)
             THEN Respond(500, getFilePath(entity, dirExists) \o <<FsCall("existsSync", file)>>,
                          server)
             ELSE Respond(200,
                          getFilePath(entity, dirExists)
                            \o <<FsCall("existsSync", file),
                                 FsCall("copyFileSync", entity \o "/backup_" \o body)>>,
                          SetItem(server, entity \o "/backup_" \o body, server[entity]))
        ELSE IF operation = "restore"
        THEN IF ~Has(server, body)
             THEN Respond(500, getFilePath(entity, dirExists) \o <<FsCall("existsSync", body)>>,
                          server)
             ELSE Respond(200,
                          getFilePath(entity, dirExists)
                            \o <<FsCall("existsSync", body), FsCall("copyFileSync", file)>>,
                          SetItem(server, entity, server[body]))
        ELSE Respond(200, getFilePath(entity, dirExists) \o <<FsCall("writeFileSync", file)>>,
                     POST(server, entity, JSONStringify(Arr(<<body>>))).files)
  /\ UNCHANGED <<inflight, appData, envVars, localStorage, now, nextId, browserNotifications, written>>

\* "ab" and "A-z_1", and names with a dot, a slash or a space.
EntityNames ==
  {<<"a", "b">>, <<"A", "-", "z", "_", "1">>,
   <<".", ".", "/", "a", "b">>, <<"a", " ", "b">>, <<"a", "b", ".", "x">>}

NextRoute ==
  \/ \E chars \in EntityNames : \E operation \in {"read", "exists"} :
       \E dirExists \in BOOLEAN : RouteGET(chars, operation, dirExists)
  \/ \E chars \in EntityNames : \E dirExists \in BOOLEAN :
       \/ \E body \in {"x", "y"} : RoutePOST(chars, "write", body, dirExists)
       \/ RoutePOST(chars, "backup", "t0", dirExists)
       \/ \E body \in {"ab/backup_t0", "ab/backup_t1"} :
            RoutePOST(chars, "restore", body, dirExists)

SpecRoute == InitWorking /\ [][NextRoute]_vars

(***************************************************************************)
(* Properties of the storage gateway.                                      *)
(***************************************************************************)
NoteVersionEntities == {"note_versions_n1", "note_versions_n2"}

\* C1: a write(entity, X) that returned, followed by read(entity) with no
\* write to the entity in between, returns X - in local mode, in server mode,
\* and when the server fails on only one of the two calls with fallback on.
C1_RoundTrip ==
  (lastOp.op = "read" /\ lastOp.args[1] \in StorageEntities
     /\ Len(written[lastOp.args[1]]) = 1)
  => lastOp.result.data = written[lastOp.args[1]][1]

\* C2: in server mode with fallback enabled, a write whose server call fails
\* stores the data under the entity's local key, shows a warning toast and
\* returns without throwing.
C2_FallbackOnWrite ==
  (lastOp.op = "write" /\ lastOp.result.useServerStorage
     /\ ~lastOp.result.serverOk /\ lastOp.result.fallbackToLocalStorage)
  => /\ lastOp.ok
     /\ lastOp.toasts >= 1
     /\ Has(localStorage, getStorageKey(lastOp.args[1]))
     /\ JSONParse(localStorage[getStorageKey(lastOp.args[1])]) = lastOp.args[2]

C2_Witness ==
  /\ lastOp.op = "write" /\ lastOp.result.useServerStorage
  /\ ~lastOp.result.serverOk /\ lastOp.result.fallbackToLocalStorage
  /\ lastOp.ok
  /\ lastOp.args[2] = Arr(<<"a">>)
  /\ Has(localStorage, BackupKey(getStorageKey(lastOp.args[1])))

\* C3: read never throws, and on a missing resource it returns the empty list
\* for every collection entity, the per-note version histories included, and
\* the default settings object for the settings singleton.
C3_DefaultOnMiss ==
  (lastOp.op = "read" /\ lastOp.result.missing)
  => /\ lastOp.ok
     /\ lastOp.args[1] \in CollectionEntities \cup NoteVersionEntities
          => lastOp.result.data = Arr(<<>>)
     /\ lastOp.args[1] = "settings" => lastOp.result.data = DefaultSettings

(***************************************************************************)
(* Properties of the project service.                                      *)
(***************************************************************************)
StoredTodos == getTodos(Store)
StoredProjects == getProjects(Store)
StoredProject(id) == StoredProjects[findIndex(StoredProjects, id)]
IsStoredProject(id) == findIndex(StoredProjects, id) # 0

\* The number of entries of todoIds that name a stored todo with status completed.
CompletedMembers(todoIds) ==
  Cardinality({i \in 1..Len(todoIds) :
                 \E j \in 1..Len(StoredTodos) :
                    StoredTodos[j].id = todoIds[i] /\ StoredTodos[j].status = "completed"})

ProgressOfMembers(project) ==
  IF Len(project.todoIds) = 0 THEN 0
  ELSE RoundPercent(CompletedMembers(project.todoIds), Len(project.todoIds))

Occurrences(ids, id) == Cardinality({i \in 1..Len(ids) : ids[i] = id})

\* C6: after a successful addTodoToProject(p, t) or removeTodoFromProject(p, t)
\* the stored project p has progress = round(100 * completed todos among the
\* new todoIds / length of the new todoIds), and 0 when the new todoIds is empty.
C6_ProgressAfterMembershipChange ==
  (lastOp.op \in {"addTodoToProject", "removeTodoFromProject"} /\ lastOp.ok)
  => StoredProject(lastOp.args[1]).progress = ProgressOfMembers(StoredProject(lastOp.args[1]))

\* C7: after a successful updateTodoStatus(t, s), every project that t belongs
\* to has stored progress = round(100 * completed member todos / todoIds.length).
C7_ProgressAfterStatusChange ==
  (lastOp.op = "updateTodoStatus" /\ lastOp.ok)
  => \A i \in 1..Len(StoredProjects) :
        includes(StoredProjects[i].todoIds, lastOp.args[1])
        => StoredProjects[i].progress = ProgressOfMembers(StoredProjects[i])

\* C8: starting with no memberships, after any sequence of addTodoToProject /
\* removeTodoFromProject calls, a todo's projectId is a project's id exactly
\* when the todo's id is in that project's todoIds.
C8_TwoSidedReferences ==
  \A i \in 1..Len(StoredTodos) : \A j \in 1..Len(StoredProjects) :
     (StoredTodos[i].projectId = StoredProjects[j].id)
     <=> includes(StoredProjects[j].todoIds, StoredTodos[i].id)

\* C9: addTodoToProject(p, t) called again right after it returned writes
\* nothing, so the stored project keeps its todoIds and progress, and t occurs
\* in todoIds exactly once.
C9_AddTodoToProjectIdempotent ==
  [][(lastOp.op = "addTodoToProject" /\ lastOp.ok
        /\ lastOp'.op = "addTodoToProject" /\ lastOp'.args = lastOp.args)
     => /\ lastOp'.ok
        /\ server' = server
        /\ localStorage' = localStorage
        /\ StoredProject(lastOp.args[1])' = StoredProject(lastOp.args[1])
        /\ Occurrences(StoredProject(lastOp.args[1]).todoIds, lastOp.args[2])' = 1]_vars

C9_Witness ==
  /\ lastOp.op = "addTodoToProject" /\ lastOp.repeat /\ lastOp.ok
  /\ Occurrences(StoredProject(lastOp.args[1]).todoIds, lastOp.args[2]) = 1
  /\ Len(StoredProject(lastOp.args[1]).todoIds) = 2

\* C10: updateProjectProgress(p) returns and stores round(100 * completed /
\* total), total the number of todos of the project and completed the number
\* of those with status completed; 0 when the project has no todos.
C10_UpdateProjectProgress ==
  (lastOp.op = "updateProjectProgress" /\ lastOp.ok)
  => /\ lastOp.result = ProgressOfMembers(StoredProject(lastOp.args[1]))
     /\ StoredProject(lastOp.args[1]).progress = ProgressOfMembers(StoredProject(lastOp.args[1]))

(***************************************************************************)
(* Properties of the notes service and of the deletes.                     *)
(***************************************************************************)
StoredNotes == getNotes(Store)
IsStoredNote(id) == findIndex(StoredNotes, id) # 0
StoredNote(id) == StoredNotes[findIndex(StoredNotes, id)]

\* The history of a note as stored on the server: no entry while the
\* resource does not exist.
HistoryEntries(noteId) ==
  LET entity == NoteVersionsEntity(noteId)
      versions == IF Has(server, entity) THEN JSONParse(server[entity]).items ELSE <<>>
  IN [i \in 1..Len(versions) |->
        [content |-> versions[i].content, timestamp |-> versions[i].timestamp]]

\* C4: with working storage, updateNote(id, patch) on an existing note
\* returns; it appends exactly one entry {content, timestamp} holding the
\* content and lastEditedAt the note had before the call to note_versions_<id>,
\* and stores the note with its version raised by one.
C4_UpdateNoteSnapshotsVersion ==
  [][\A id \in NoteIds :
       (lastOp'.op = "updateNote" /\ lastOp'.args[1] = id /\ IsStoredNote(id)) =>
         /\ lastOp'.ok
         /\ StoredNote(id)'.version = StoredNote(id).version + 1
         /\ HistoryEntries(id)' =
              Append(HistoryEntries(id),
                     [content |-> StoredNote(id).content,
                      timestamp |-> StoredNote(id).lastEditedAt])]_vars

DeleteOps == {"deleteTodo", "deleteProject", "deleteNote", "deleteNotification"}

CollectionOf(op) ==
  IF op = "deleteTodo" THEN getTodos(Store)
  ELSE IF op = "deleteProject" THEN getProjects(Store)
  ELSE IF op = "deleteNote" THEN getNotes(Store)
  ELSE getNotifications(Store)

NotFoundMessage(op, id) ==
  (IF op = "deleteTodo" THEN "Todo"
   ELSE IF op = "deleteProject" THEN "Project"
   ELSE IF op = "deleteNote" THEN "Note"
   ELSE "Notification") \o " with id " \o id \o " not found"

\* C5: in each of the four collections, deleting an id that is not stored
\* fails with the not-found error of that id (not with the message of a
\* storage failure) and writes nothing: the server files and localStorage,
\* version histories included, are as before.
C5_DeleteMissingIdNotFound ==
  [][\A op \in DeleteOps :
       (lastOp'.op = op /\ findIndex(CollectionOf(op), lastOp'.args[1]) = 0) =>
         /\ ~lastOp'.ok
         /\ server' = server
         /\ localStorage' = localStorage
         /\ lastOp'.error = NotFoundMessage(op, lastOp'.args[1])]_vars

(***************************************************************************)
(* The todo service on its own: creations and updates with valid and       *)
(* invalid data, and deletions.                                            *)
(***************************************************************************)
\* Changes of one field: two that validateTodo accepts, two falsy values
\* (the empty status, null subtasks), and one per rule of the validation
\* (a title of 101 and a description of 501 characters, an object where an
\* array is expected).
TodoPatches ==
  {[title |-> "b"], [tags |-> Arr(<<>>)],
   [status |-> ""], [subtasks |-> Null],
   [title |-> ""], [title |-> " "],
   [title |-> "xxxxxxxxxxxxxxxxxxxxxxxxxxxxxxxxxxxxxxxxxxxxxxxxxxxxxxxxxxxxxxxxxxxxxxxxxxxxxxxxxxxxxxxxxxxxxxxxxxxxx"],
   [description |-> "yyyyyyyyyyyyyyyyyyyyyyyyyyyyyyyyyyyyyyyyyyyyyyyyyyyyyyyyyyyyyyyyyyyyyyyyyyyyyyyyyyyyyyyyyyyyyyyyyyyyyyyyyyyyyyyyyyyyyyyyyyyyyyyyyyyyyyyyyyyyyyyyyyyyyyyyyyyyyyyyyyyyyyyyyyyyyyyyyyyyyyyyyyyyyyyyyyyyyyyyyyyyyyyyyyyyyyyyyyyyyyyyyyyyyyyyyyyyyyyyyyyyyyyyyyyyyyyyyyyyyyyyyyyyyyyyyyyyyyyyyyyyyyyyyyyyyyyyyyyyyyyyyyyyyyyyyyyyyyyyyyyyyyyyyyyyyyyyyyyyyyyyyyyyyyyyyyyyyyyyyyyyyyyyyyyyyyyyyyyyyyyyyyyyyyyyyyyyyyyyyyyyyyyyyyyyyyyyyyyyyyyyyyyyyyyyyyyyyyyyyyyyyyyyyyyyyyyyyyyyyyyyyyyyyyyyyyyyyyyyyyyyyyyyyyyyyyyyyyyyy"],
   [dueDate |-> InvalidDate], [status |-> "done"], [priority |-> "urgent"],
   [subtasks |-> EmptyObject], [tags |-> EmptyObject], [images |-> EmptyObject]}

UpdateTodo(id, todoData) ==
  /\ Outcome(updateTodo(Store, id, todoData), "updateTodo", <<id, todoData>>, 0)
  /\ UNCHANGED <<inflight, appData, envVars, now, nextId, browserNotifications, written>>

\* The two readings of the clock in createTodo are 0 or 1 apart.
NextTodo ==
  \/ \E base \in PendingTodoInputs : \E patch \in TodoPatches : \E elapsed \in {0, 1} :
       CreateTodo(Spread(base, patch), elapsed)
  \/ \E id \in TodoIds : \E todoData \in TodoPatches : UpdateTodo(id, todoData)
  \/ \E id \in TodoIds : DeleteTodo(id)

SpecTodo == InitWorking /\ [][NextTodo]_vars

\* C11: after every createTodo that returns, the created record (the last
\* of the stored todos) has createdAt equal to updatedAt, and no other stored
\* todo has its id.
C11_CreatedAtEqualsUpdatedAt ==
  (lastOp.op = "createTodo" /\ lastOp.ok) =>
    LET created == StoredTodos[Len(StoredTodos)]
    IN /\ created.createdAt = created.updatedAt
       /\ \A i \in 1..(Len(StoredTodos) - 1) : StoredTodos[i].id # created.id

\* The grounds of rejection: a blank or too long title, a too long
\* description, a due date that does not parse, a status or a priority that
\* is present and outside its set, subtasks / tags / images that are present
\* (not null) and not an array.
OutsideSet(todo, field, allowed) == field \in DOMAIN todo /\ todo[field] \notin allowed
NotAnArray(todo, field) == Prop(todo, field, Null) # Null /\ ~IsArray(todo[field])
MustBeRejected(todo) ==
  \/ Len(trim(Prop(todo, "title", ""))) = 0
  \/ Len(Prop(todo, "title", "")) > 100
  \/ Len(Prop(todo, "description", "")) > 500
  \/ Prop(todo, "dueDate", UndefinedDate) = InvalidDate
  \/ OutsideSet(todo, "status", TodoStatuses)
  \/ OutsideSet(todo, "priority", Priorities)
  \/ \E field \in {"subtasks", "tags", "images"} : NotAnArray(todo, field)

\* The todo a createTodo / updateTodo call with these arguments results in.
ResultingTodo(op, args) ==
  IF op = "createTodo" THEN <<args[1]>>
  ELSE IF findIndex(StoredTodos, args[1]) = 0 THEN <<>>
  ELSE <<Spread(StoredTodos[findIndex(StoredTodos, args[1])], args[2])>>

\* C12: a createTodo or updateTodo call whose resulting todo has one of the
\* grounds of rejection throws an error with a message, writes nothing and
\* leaves the stored todos as they were.
C12_InvalidTodoRejected ==
  [][(/\ lastOp'.op \in {"createTodo", "updateTodo"}
      /\ ResultingTodo(lastOp'.op, lastOp'.args) # <<>>
      /\ MustBeRejected(ResultingTodo(lastOp'.op, lastOp'.args)[1]))
     => (/\ ~lastOp'.ok
         /\ lastOp'.error # ""
         /\ server' = server
         /\ localStorage' = localStorage)]_vars

(***************************************************************************)
(* The todos page: the useTodos hook, the todo form and the handlers of    *)
(* the page.  A handler runs as one step; a fetch takes two (it sets the   *)
(* loading flag, and later stores what it read).                           *)
(***************************************************************************)
SubtaskIds == {"s" \o ToString(i) : i \in 1..MaxSubtasks}

\* subtasks.map(st => st.id === id ? {...st, completed, completedAt} : st)
ToggleSubtask(subtasks, id, completed) ==
  [i \in 1..Len(subtasks) |->
     IF subtasks[i].id = id
     THEN Spread(subtasks[i], [completed |-> completed,
                               completedAt |-> IF completed THEN now ELSE UndefinedDate])
     ELSE subtasks[i]]

\* The subtasks of the todo form after one of its handlers (or none) ran.
FormEdits ==
  {[kind |-> "none", id |-> Undefined, completed |-> FALSE],
   [kind |-> "add", id |-> Undefined, completed |-> FALSE]}
  \cup {[kind |-> "remove", id |-> id, completed |-> FALSE] : id \in SubtaskIds}
  \cup {[kind |-> "toggle", id |-> id, completed |-> completed] :
          id \in SubtaskIds, completed \in BOOLEAN}

FormSubtasks(subtasks, edit) ==
  IF edit.kind = "add"
  THEN Append(subtasks, [id |-> generateId("s"), title |-> "s", completed |-> FALSE,
                         createdAt |-> now])
  ELSE IF edit.kind = "remove" THEN WithoutId(subtasks, edit.id)
  ELSE IF edit.kind = "toggle" THEN ToggleSubtask(subtasks, edit.id, edit.completed)
  ELSE subtasks

\* useTodos: the hook's state after a service call with outcome r; found is
\* the list shown when it returned, message the error set when it threw.
AfterHookCall(r, found, message) ==
  [appData EXCEPT !.todoState.todos = IF r.ok THEN found ELSE @,
                  !.todoState.error = IF r.ok THEN NoError ELSE message]

ReplaceTodo(items, result) ==
  [i \in 1..Len(items) |-> IF items[i].id = result.id THEN result ELSE items[i]]

\* useTodos.updateTodo(updatedTodo), called by a handler of the page.
HookUpdateTodo(handler, args, updatedTodo) ==
  LET Apply(r) ==
        /\ Outcome(r, handler, args, 0)
        /\ appData' = AfterHookCall(r, ReplaceTodo(appData.todoState.todos, r.result),
                                    "Failed to update todo")
  IN Apply(updateTodo(Store, updatedTodo.id, updatedTodo))

\* fetchTodos / fetchProjects / fetchNotes of the hook kept under appData[hook]:
\* the collection the hook caches, and the two steps of the fetch.
HookCollection == [todoState |-> "todos", projectState |-> "projects", notesState |-> "notes"]

Fetch(hook) ==
  /\ appData' = [appData EXCEPT ![hook].loading = TRUE, ![hook].error = NoError]
  /\ lastOp' = Call("fetch", <<hook>>, TRUE, "", 0, 0)
  /\ UNCHANGED <<inflight, envVars, server, localStorage, now, nextId, browserNotifications, written>>

FetchDone(hook) ==
  /\ appData[hook].loading
  /\ appData' = [appData EXCEPT ![hook][HookCollection[hook]] =
                                   read(Store, HookCollection[hook]).items,
                                ![hook].loading = FALSE]
  /\ lastOp' = Call("fetchDone", <<hook>>, TRUE, "", 0, 0)
  /\ UNCHANGED <<inflight, envVars, server, localStorage, now, nextId, browserNotifications, written>>

\* TodosPage.handleFormSubmit for a new todo: addTodo passes on the title,
\* description, dueDate, priority and projectId of the form only; a status
\* other than pending is set by a second call, updateTodoStatus.
HandleFormSubmitNew(data, initialStatus) ==
  /\ nextId["t"] < MaxTodos
  /\ LET newTodo == [title |-> data.title, description |-> data.description,
                     dueDate |-> data.dueDate, priority |-> data.priority,
                     projectId |-> data.projectId, status |-> "pending"]
         Added(r, added) ==
           IF r.ok /\ initialStatus \notin {Undefined, "pending"}
           THEN LET Apply(u) ==
                      /\ Outcome(u, "handleFormSubmit", <<data, initialStatus>>, 0)
                      /\ appData' =
                           [appData EXCEPT
                              !.todoState.todos =
                                 IF u.ok THEN ReplaceTodo(added, u.result) ELSE added,
                              !.todoState.error =
                                 IF u.ok THEN NoError ELSE "Failed to update todo status"]
                IN Apply(AndThen(r, updateTodoStatus(r.st, r.result.id, initialStatus)))
           ELSE /\ Outcome(r, "handleFormSubmit", <<data, initialStatus>>, 0)
                /\ appData' = AfterHookCall(r, added, "Failed to add todo")
         Submit(r) == Added(r, Append(appData.todoState.todos, r.result))
     IN Submit(createTodo(Store, newTodo, 0))
  /\ nextId' = [nextId EXCEPT !["t"] = @ + 1]
  /\ UNCHANGED <<inflight, envVars, now, browserNotifications, written>>

\* TodosPage.handleFormSubmit for the todo being edited (one of the list the
\* hook shows), with the subtasks the form holds after edit.
HandleFormSubmitEdit(editingTodo, edit) ==
  /\ edit.kind = "add" => nextId["s"] < MaxSubtasks
  /\ LET subtasks == Prop(editingTodo, "subtasks", Arr(<<>>)).items
         data == [title |-> trim(editingTodo.title), description |-> editingTodo.description,
                  dueDate |-> editingTodo.dueDate, priority |-> editingTodo.priority,
                  status |-> editingTodo.status, projectId |-> editingTodo.projectId,
                  tags |-> Prop(editingTodo, "tags", Arr(<<>>)),
                  subtasks |-> Arr(FormSubtasks(subtasks, edit)),
                  images |-> Prop(editingTodo, "images", Arr(<<>>))]
     IN HookUpdateTodo("handleFormSubmitEdit", <<editingTodo.id, edit>>,
                       Spread(Spread(editingTodo, data), [updatedAt |-> now]))
  /\ nextId' = IF edit.kind = "add" THEN [nextId EXCEPT !["s"] = @ + 1] ELSE nextId
  /\ UNCHANGED <<inflight, envVars, now, browserNotifications, written>>

\* TodosPage.handleSubtaskToggle.
HandleSubtaskToggle(todoId, subtaskId, completed) ==
  /\ LET Toggle(todos) ==
           LET index == findIndex(todos, todoId)
               Update(todo, updatedSubtasks) ==
                 LET CompletedOnes(st) == st.completed
                     Derive(progress) ==
                       LET status ==
                             IF progress = 100 /\ Len(updatedSubtasks) > 0 THEN "completed"
                             ELSE IF progress > 0 /\ todo.status = "pending"
                                  THEN "in-progress"
                             ELSE IF progress = 0 /\ todo.status = "in-progress"
                                  THEN "pending"
                             ELSE todo.status
                       IN Spread(todo,
                            [subtasks |-> Arr(updatedSubtasks), progress |-> progress,
                             status |-> status,
                             completedAt |-> IF status = "completed" THEN now
                                             ELSE UndefinedDate,
                             updatedAt |-> now])
                 IN Derive(IF Len(updatedSubtasks) > 0
                           THEN RoundPercent(Len(SelectSeq(updatedSubtasks, CompletedOnes)),
                                             Len(updatedSubtasks))
                           ELSE 0)
           IN IF index = 0 \/ Prop(todos[index], "subtasks", Null) = Null
              THEN /\ lastOp' = Call("handleSubtaskToggle", <<todoId, subtaskId, completed>>,
                                     TRUE, "", 0, 0)
                   /\ UNCHANGED <<inflight, appData, server, localStorage>>
              ELSE HookUpdateTodo("handleSubtaskToggle", <<todoId, subtaskId, completed>>,
                     Update(todos[index],
                            ToggleSubtask(todos[index].subtasks.items, subtaskId, completed)))
     IN Toggle(appData.todoState.todos)
  /\ UNCHANGED <<inflight, envVars, now, nextId, browserNotifications, written>>

FormInputs ==
  {[title |-> "a", description |-> Undefined, dueDate |-> UndefinedDate,
    priority |-> "medium", projectId |-> Undefined]}

NextTodosPage ==
  \/ FetchDone("todoState")
  \/ \E data \in FormInputs : \E initialStatus \in {Undefined} \cup TodoStatuses :
       HandleFormSubmitNew(data, initialStatus)
  \/ \E i \in 1..Len(appData.todoState.todos) : \E edit \in FormEdits :
       HandleFormSubmitEdit(appData.todoState.todos[i], edit)
  \/ \E todoId \in TodoIds : \E subtaskId \in SubtaskIds : \E completed \in BOOLEAN :
       HandleSubtaskToggle(todoId, subtaskId, completed)

SpecTodosPage == InitWorking /\ [][NextTodosPage]_vars

(***************************************************************************)
(* The todos page showing one todo with subtasks: a short list of          *)
(* subtasks or a long one, of which none or all but the first MaxSubtasks  *)
(* are completed, in any status (the status buttons of the page set it).   *)
(***************************************************************************)
TodoWithSubtasks(n, completed, status) ==
  [id |-> "t1", title |-> "a", description |-> Undefined, status |-> status,
   priority |-> "medium", dueDate |-> UndefinedDate, projectId |-> Undefined,
   createdAt |-> 0, updatedAt |-> 0,
   subtasks |-> Arr([i \in 1..n |->
                       [id |-> "s" \o ToString(i), title |-> "s", createdAt |-> 0,
                        completed |-> (i > n - completed),
                        completedAt |-> IF i > n - completed THEN 0 ELSE UndefinedDate]]),
   progress |-> RoundPercent(completed, n)]

InitSubtasks ==
  /\ useServerStorage = TRUE
  /\ fallbackToLocalStorage = TRUE
  /\ serverUp = TRUE
  /\ browserNotificationsPermission = "granted"
  /\ \E n \in {MaxSubtasks, ManySubtasks} : \E completed \in {0, n - MaxSubtasks} :
       \E status \in TodoStatuses :
         /\ server = SetItem(EmptyMap, "todos",
                             JSONStringify(Arr(<<TodoWithSubtasks(n, completed, status)>>)))
         /\ appData = [InitialAppData EXCEPT
                         !.todoState.todos = <<TodoWithSubtasks(n, completed, status)>>,
                         !.todoState.loading = FALSE]
  /\ localStorage = EmptyMap
  /\ now = 0
  /\ nextId = [kind \in IdKinds |-> IF kind = "t" THEN 1 ELSE 0]
  /\ browserNotifications = {}
  /\ inflight = NoCalls
  /\ written = [e \in StorageEntities |-> <<>>]
  /\ lastOp = NoOp

NextSubtasks ==
  \E todoId \in TodoIds : \E subtaskId \in SubtaskIds : \E completed \in BOOLEAN :
    HandleSubtaskToggle(todoId, subtaskId, completed)

SpecSubtasks == InitSubtasks /\ [][NextSubtasks]_vars

(***************************************************************************)
(* useAppData: the settings it loads itself and the three hooks it         *)
(* composes, with the loading flag and the error of each.                  *)
(***************************************************************************)
Hooks == {"todoState", "projectState", "notesState"}

\* deleteTodo / deleteProject / deleteNote of a hook: clearError, the service
\* call, then the cached list without the id, or the error.
HookDelete(hook, id) ==
  /\ LET Apply(r, message) ==
           /\ Outcome(r, "delete", <<hook, id>>, 0)
           /\ appData' = [appData EXCEPT
                            ![hook][HookCollection[hook]] = IF r.ok THEN WithoutId(@, id) ELSE @,
                            ![hook].error = IF r.ok THEN NoError ELSE message]
     IN CASE hook = "todoState" -> Apply(deleteTodo(Store, id), "Failed to delete todo")
          [] hook = "projectState" -> Apply(deleteProject(Store, id), "Failed to delete project")
          [] hook = "notesState" -> Apply(deleteNote(Store, id), "Failed to delete note")
  /\ UNCHANGED <<inflight, envVars, now, nextId, browserNotifications, written>>

\* loadSettings: storageService.read does not throw, so the catch branch is
\* never taken.
LoadSettings ==
  /\ appData' = [appData EXCEPT !.loading = TRUE, !.error = NoError]
  /\ lastOp' = Call("loadSettings", <<>>, TRUE, "", 0, 0)
  /\ UNCHANGED <<inflight, envVars, server, localStorage, now, nextId, browserNotifications, written>>

LoadSettingsDone ==
  /\ appData.loading
  /\ appData' = [appData EXCEPT !.settings = read(Store, "settings"), !.loading = FALSE]
  /\ lastOp' = Call("loadSettingsDone", <<>>, TRUE, "", 0, 0)
  /\ UNCHANGED <<inflight, envVars, server, localStorage, now, nextId, browserNotifications, written>>

UpdateSettings(updatedSettings) ==
  /\ LET Apply(r) ==
           /\ Outcome(r, "updateSettings", <<updatedSettings>>, 0)
           /\ appData' = [appData EXCEPT
                            !.settings = IF r.ok THEN Obj(r.result) ELSE @,
                            !.error = IF r.ok THEN NoError ELSE "Failed to update settings"]
         Update(newSettings) == AfterSave(write(Store, "settings", Obj(newSettings)), newSettings)
     IN IF appData.settings = Null THEN Apply(Throw(Store, 0, "Settings not initialized"))
        ELSE Apply(Update(Spread(appData.settings.fields, updatedSettings)))
  /\ UNCHANGED <<inflight, envVars, now, nextId, browserNotifications, written>>

\* The value useAppData returns: loading || todoState.loading || ..., and
\* error || todoState.error || ... || initializationError (always null).
AppLoading ==
  \/ appData.loading
  \/ appData.todoState.loading
  \/ appData.projectState.loading
  \/ appData.notesState.loading

\* An error that takes the notes hook first.
AppError_NotesFirst ==
  IF appData.notesState.error # NoError THEN appData.notesState.error
  ELSE IF appData.error # NoError THEN appData.error
  ELSE IF appData.todoState.error # NoError THEN appData.todoState.error
  ELSE appData.projectState.error

AppError ==
  IF appData.error # NoError THEN appData.error
  ELSE IF appData.todoState.error # NoError THEN appData.todoState.error
  ELSE IF appData.projectState.error # NoError THEN appData.projectState.error
  ELSE IF appData.notesState.error # NoError THEN appData.notesState.error
  ELSE NoError

NextAppData ==
  \/ \E hook \in Hooks : Fetch(hook)
  \/ \E hook \in Hooks : FetchDone(hook)
  \/ \E hook \in Hooks : HookDelete(hook, "x1")
  \/ LoadSettings
  \/ LoadSettingsDone
  \/ \E theme \in {"light", "dark"} : UpdateSettings([theme |-> theme])

SpecAppData == InitWorking /\ [][NextAppData]_vars

\* The subtasks of a stored todo, none when the field is absent or null.
SubtasksOf(todo) ==
  IF Prop(todo, "subtasks", Null) = Null THEN <<>> ELSE todo.subtasks.items
CompletedSubtasks(todo) == {i \in 1..Len(SubtasksOf(todo)) : SubtasksOf(todo)[i].completed}

\* C14: every stored todo with at least one subtask has a progress, equal to
\* round(100 * completed subtasks / number of subtasks).
C14_ProgressFromSubtasks ==
  \A i \in 1..Len(StoredTodos) :
    Len(SubtasksOf(StoredTodos[i])) > 0 =>
      /\ "progress" \in DOMAIN StoredTodos[i]
      /\ StoredTodos[i].progress =
           RoundPercent(Cardinality(CompletedSubtasks(StoredTodos[i])),
                        Len(SubtasksOf(StoredTodos[i])))

\* The same for todos that have a progress: the edit form may leave a stale one.
C14_StoredProgressIsCurrent ==
  \A i \in 1..Len(StoredTodos) :
    (Len(SubtasksOf(StoredTodos[i])) > 0 /\ "progress" \in DOMAIN StoredTodos[i]) =>
      StoredTodos[i].progress =
        RoundPercent(Cardinality(CompletedSubtasks(StoredTodos[i])),
                     Len(SubtasksOf(StoredTodos[i])))

\* The todo the page shows under an id, before a handler runs.
ShownTodos(id) == SelectSeq(appData.todoState.todos, LAMBDA todo : todo.id = id)

\* C13: a subtask toggle on a shown todo with subtasks leaves the stored todo
\* completed when all its subtasks are completed, pending when none is and
\* the status was in-progress, in-progress when some but not all are and the
\* status was pending.
C13_SubtaskStateMachine ==
  [][(/\ lastOp'.op = "handleSubtaskToggle"
      /\ ShownTodos(lastOp'.args[1]) # <<>>
      /\ Len(SubtasksOf(ShownTodos(lastOp'.args[1])[1])) > 0)
     => LET before == ShownTodos(lastOp'.args[1])[1]
            after == StoredTodos'[findIndex(StoredTodos', lastOp'.args[1])]
            done == Cardinality(CompletedSubtasks(after))
            all == Len(SubtasksOf(after))
        IN /\ done = all => after.status = "completed"
           /\ (done = 0 /\ before.status = "in-progress") => after.status = "pending"
           /\ (0 < done /\ done < all /\ before.status = "pending")
                => after.status = "in-progress"]_vars

(***************************************************************************)
(* Properties of the notification service.  The preferences are those the  *)
(* service consults when it decides about a browser notification.          *)
(***************************************************************************)
ConsultedPreferences == getPreferencesSync(Store)
StoredNotifications == getNotifications(Store)

MinuteOfDay(time) ==
  CASE time = "06:00" -> 360
    [] time = "09:00" -> 540
    [] time = "17:00" -> 1020
    [] time = "22:00" -> 1320

Contains(start, end, minute) ==
  IF start <= end THEN start <= minute /\ minute <= end
  ELSE minute >= start \/ minute <= end

InQuietHours(preferences, minute) ==
  /\ preferences.quietHoursStart # Undefined
  /\ preferences.quietHoursEnd # Undefined
  /\ Contains(MinuteOfDay(preferences.quietHoursStart),
              MinuteOfDay(preferences.quietHoursEnd), minute)

\* C15: for every minute of the day, isInQuietHours is true exactly when both
\* bounds are set and the minute lies in [start, end], or, when start is
\* later than end, at or after start or at or before end; with 22:00 - 06:00
\* it is true at 23:30 and 03:00 and false at 12:00.
C15_QuietHoursContainment ==
  LET preferences == ConsultedPreferences
  IN /\ \A minute \in 0..(24 * MinutesPerHour - 1) :
          isInQuietHours(preferences, minute) = InQuietHours(preferences, minute)
     /\ (preferences.quietHoursStart = "22:00" /\ preferences.quietHoursEnd = "06:00")
        => /\ isInQuietHours(preferences, 23 * MinutesPerHour + 30)
           /\ isInQuietHours(preferences, 3 * MinutesPerHour)
           /\ ~isInQuietHours(preferences, 12 * MinutesPerHour)

\* A notification created at 23:30 under quiet hours 22:00 - 06:00, with
\* everything else allowing it, was stored and not shown.
C15_Witness ==
  /\ lastOp.op = "createNotification" /\ lastOp.ok
  /\ lastOp.args[2] = 1410
  /\ browserNotificationsPermission = "granted"
  /\ ConsultedPreferences.enabled
  /\ ConsultedPreferences.categories[lastOp.args[1].category]
  /\ ConsultedPreferences.priorities[lastOp.args[1].priority]
  /\ ConsultedPreferences.quietHoursStart = "22:00"
  /\ ConsultedPreferences.quietHoursEnd = "06:00"
  /\ StoredNotifications[Len(StoredNotifications)].id \notin browserNotifications

\* C16: a createNotification call that returns has stored the notification
\* (unread, with the data given); the browser shows it only if notifications
\* are enabled, its category is enabled, its priority is enabled and the time
\* of the call is not in quiet hours.
C16_NotificationGating ==
  (lastOp.op = "createNotification" /\ lastOp.ok) =>
    LET stored == StoredNotifications[Len(StoredNotifications)]
        preferences == ConsultedPreferences
    IN /\ stored.title = lastOp.args[1].title
       /\ stored.priority = lastOp.args[1].priority
       /\ stored.category = lastOp.args[1].category
       /\ ~stored.read
       /\ stored.id \in browserNotifications =>
            /\ preferences.enabled
            /\ preferences.categories[stored.category]
            /\ preferences.priorities[stored.priority]
            /\ ~InQuietHours(preferences, lastOp.args[2])

\* A notification of a disabled priority, outside quiet hours and otherwise
\* allowed, was stored and not shown.
C16_Witness ==
  /\ lastOp.op = "createNotification" /\ lastOp.ok
  /\ browserNotificationsPermission = "granted"
  /\ ConsultedPreferences.enabled
  /\ ConsultedPreferences.categories[lastOp.args[1].category]
  /\ ~ConsultedPreferences.priorities[lastOp.args[1].priority]
  /\ ~InQuietHours(ConsultedPreferences, lastOp.args[2])
  /\ StoredNotifications[Len(StoredNotifications)].id \notin browserNotifications
  /\ \E id \in browserNotifications : id # StoredNotifications[Len(StoredNotifications)].id

\* C17: after a deleteNote(id) that returned, no stored note has the id, and
\* the version history of the note is stored (the resource is not missing)
\* and is the empty list.
C17_DeleteNoteClearsVersions ==
  (lastOp.op = "deleteNote" /\ lastOp.ok) =>
    /\ ~IsStoredNote(lastOp.args[1])
    /\ ~MissingResource(Store, NoteVersionsEntity(lastOp.args[1]))
    /\ read(Store, NoteVersionsEntity(lastOp.args[1])) = Arr(<<>>)

\* The only note ever created was updated (a version was snapshot) and then
\* deleted.
C17_Witness ==
  /\ lastOp.op = "deleteNote" /\ lastOp.ok
  /\ nextId["n"] = 1
  /\ nextId["v"] > 0

(***************************************************************************)
(* Properties of the tags and relations of notes.                          *)
(***************************************************************************)
NoteArrayOps == {"addTagToNote", "removeTagFromNote", "linkNotes", "unlinkNotes"}
NoDuplicates(items) == \A i, j \in 1..Len(items) : items[i] = items[j] => i = j

\* C18: when addTagToNote, removeTagFromNote, linkNotes or unlinkNotes
\* returns, the tags and the related notes of the note have no duplicates;
\* when the call before was the same call and returned, both lists are what
\* they were after that first call.
C18_NoteArrayOpsIdempotent ==
  [][(lastOp'.op \in NoteArrayOps /\ lastOp'.ok)
     => LET after == (StoredNotes')[findIndex(StoredNotes', lastOp'.args[1])]
        IN /\ NoDuplicates(Prop(after, "tags", <<>>))
           /\ NoDuplicates(Prop(after, "relatedNotes", <<>>))
           /\ lastOp'.repeat =>
                /\ Prop(after, "tags", <<>>) = Prop(StoredNote(lastOp'.args[1]), "tags", <<>>)
                /\ Prop(after, "relatedNotes", <<>>)
                     = Prop(StoredNote(lastOp'.args[1]), "relatedNotes", <<>>)]_vars

\* addTagToNote was applied twice in succession to a note that has the tag.
C18_Witness ==
  /\ lastOp.op = "addTagToNote" /\ lastOp.ok /\ lastOp.repeat
  /\ includes(Prop(StoredNote(lastOp.args[1]), "tags", <<>>), lastOp.args[2])

(***************************************************************************)
(* Properties of useAppData.                                               *)
(***************************************************************************)
\* The loading flags and the errors of the sub-states in composition order:
\* settings, todos, projects, notes.
SubLoadings ==
  <<appData.loading, appData.todoState.loading, appData.projectState.loading,
    appData.notesState.loading>>
SubErrors ==
  <<appData.error, appData.todoState.error, appData.projectState.error,
    appData.notesState.error>>

\* C19: the loading flag returned is the disjunction of the four loading
\* flags; the error returned is null when the four errors are null, and the
\* first error that is not null otherwise.
C19_AggregatedLoadingAndError ==
  /\ AppLoading = (\E i \in 1..4 : SubLoadings[i])
  /\ (AppError = NoError) = (\A i \in 1..4 : SubErrors[i] = NoError)
  /\ \A i \in 1..4 :
       (SubErrors[i] # NoError /\ \A j \in 1..(i - 1) : SubErrors[j] = NoError)
         => AppError = SubErrors[i]

\* Two hooks hold an error, the settings none, and a fetch is in flight.
C19_Witness ==
  /\ appData.error = NoError
  /\ appData.todoState.error # NoError
  /\ appData.notesState.error # NoError
  /\ appData.projectState.loading
  /\ ~appData.loading

(***************************************************************************)
(* Properties of the HTTP route.                                           *)
(***************************************************************************)
NameChars ==
  {"a", "b", "c", "d", "e", "f", "g", "h", "i", "j", "k", "l", "m", "n",
   "o", "p", "q", "r", "s", "t", "u", "v", "w", "x", "y", "z",
   "A", "B", "C", "D", "E", "F", "G", "H", "I", "J", "K", "L", "M", "N",
   "O", "P", "Q", "R", "S", "T", "U", "V", "W", "X", "Y", "Z",
   "0", "1", "2", "3", "4", "5", "6", "7", "8", "9", "-", "_"}

\* C20: a GET or POST whose entity name has a character that is not a
\* letter, a digit, "_" or "-" is answered with 400, makes no fs call and
\* leaves the files as they were.
C20_InvalidEntityRejected ==
  [][(/\ lastOp'.op \in {"GET", "POST"}
      /\ \E i \in 1..Len(lastOp'.args[1]) : lastOp'.args[1][i] \notin NameChars)
     => (/\ lastOp'.result.status = 400
         /\ lastOp'.result.fs = <<>>
         /\ server' = server)]_vars

\* A write to "../ab" was refused while "ab" holds data.
C20_Witness ==
  /\ lastOp.op = "POST"
  /\ lastOp.args[1] = <<".", ".", "/", "a", "b">>
  /\ lastOp.args[2] = "write"
  /\ lastOp.result.status = 400
  /\ Has(server, "ab")

(***************************************************************************)
(* Further properties of the storage gateway.                              *)
(***************************************************************************)
\* The text an entity has in the store a write goes to (the server's file
\* when the server call succeeds, the local key otherwise), and the text
\* kept as its backup on the server or in localStorage.
HasValue(files, ls, entity, onServer) ==
  IF onServer THEN Has(files, entity) ELSE Has(ls, getStorageKey(entity))

ValueOf(files, ls, entity, onServer) ==
  IF onServer THEN files[entity] ELSE ls[getStorageKey(entity)]

Backups(files, ls, entity) ==
  {files[k] : k \in {entity \o "_backup"} \cap DOMAIN files}
    \cup {ls[k] : k \in {BackupKey(getStorageKey(entity))} \cap DOMAIN ls}

\* C21: every write(entity, X) that returns and overwrites an existing value
\* V leaves V as the entity's backup, in server mode as well as in
\* local-storage mode; a write to an entity with no previous value creates
\* no backup.
C21_SingleSlotBackup ==
  [][(lastOp'.op = "write" /\ lastOp'.ok /\ serverUp' = serverUp)
     => LET entity == lastOp'.args[1]
            onServer == lastOp'.result.serverOk
        IN IF HasValue(server, localStorage, entity, onServer)
           THEN Backups(server', localStorage', entity)
                  = {ValueOf(server, localStorage, entity, onServer)}
           ELSE Backups(server', localStorage', entity)
                  = Backups(server, localStorage, entity)]_vars

(***************************************************************************)
(* The project service with valid and invalid project data, while the      *)
(* clock advances.  Dates are clock values.                                *)
(***************************************************************************)
UpdateProject(id, projectData) ==
  /\ Outcome(updateProject(Store, id, projectData), "updateProject", <<id, projectData>>, 0)
  /\ UNCHANGED <<inflight, appData, envVars, now, nextId, browserNotifications, written>>

ProjectValidationInputs ==
  {[name |-> name, description |-> Undefined, status |-> status,
    startDate |-> startDate, dueDate |-> dueDate] :
     name \in {"P", " "}, status \in {Undefined, "active", "cancelled"},
     startDate \in {UndefinedDate, 1, InvalidDate},
     dueDate \in {UndefinedDate, 0, 2, InvalidDate}}

ProjectPatches ==
  {[status |-> "cancelled"], [status |-> "completed"], [dueDate |-> 0], [name |-> " "]}

NextProjectValidation ==
  \/ \E projectData \in ProjectValidationInputs : CreateProject(projectData)
  \/ \E id \in ProjectIds : \E projectData \in ProjectPatches : UpdateProject(id, projectData)
  \/ \E id \in ProjectIds : DeleteProject(id)
  \/ Tick

SpecProjectValidation == InitWorking /\ [][NextProjectValidation]_vars

(***************************************************************************)
(* Properties of project validation.                                       *)
(***************************************************************************)
\* The listed grounds, on the data of a project: a blank or too long name,
\* a too long description, an unparseable date, a startDate later than the
\* dueDate when both are supplied, a status outside the five.
ProjectGrounds(project) ==
  \/ trim(project.name) = ""
  \/ Len(project.name) > MaxTitleLength
  \/ Len(project.description) > MaxDescriptionLength
  \/ project.dueDate = InvalidDate
  \/ project.startDate = InvalidDate
  \/ /\ project.startDate # UndefinedDate /\ project.dueDate # UndefinedDate
     /\ project.startDate > project.dueDate
  \/ project.status # Undefined /\ project.status \notin ProjectStatuses

\* C22: createProject and updateProject reject a project exactly on the
\* listed grounds; the date-order rule applies only when both startDate and
\* dueDate are supplied, so createProject with a valid name, no startDate and
\* a parseable dueDate is accepted.
C22_ProjectRejectedOnGrounds ==
  [][/\ (lastOp'.op = "createProject" /\ nextId' # nextId)
          => (lastOp'.ok <=> ~ProjectGrounds(lastOp'.args[1]))
     /\ (lastOp'.op = "updateProject" /\ IsStoredProject(lastOp'.args[1]))
          => (lastOp'.ok
                <=> ~ProjectGrounds(Spread(StoredProject(lastOp'.args[1]),
                                           lastOp'.args[2])))]_vars

(***************************************************************************)
(* Overlapping calls of the todo service.  A call reads the collection     *)
(* and computes the collection to store (getTodos, then the change in      *)
(* memory); after its await it writes that collection and returns.  The    *)
(* calls are creations and status changes, so nothing is ever removed.     *)
(***************************************************************************)
TodoCalls ==
  {[op |-> "createTodo", args |-> <<todoData>>] : todoData \in PendingTodoInputs}
    \cup {[op |-> "updateTodoStatus", args |-> <<id, status>>] :
            id \in TodoIds, status \in {"in-progress", "completed"}}

\* The call on the store st, as one step.
ServiceCall(st, call) ==
  IF call.op = "createTodo" THEN createTodo(st, call.args[1], 0)
  ELSE updateTodoStatus(st, call.args[1], call.args[2])

\* A service that reads the collection again when it writes, and adds to it
\* the todos it holds that are not there.
Commit_Reread(st, call, toWrite, result) ==
  LET Merge(todos) ==
        LET IsNew(todo) == findIndex(todos, todo.id) = 0
        IN Arr(todos \o SelectSeq(toWrite.items, IsNew))
  IN AfterSave(write(st, "todos", Merge(getTodos(st))), result)

\* storageService.write("todos", todos) with the array the call holds.
Commit(st, call, toWrite, result) == AfterSave(write(st, "todos", toWrite), result)

BeginCall(c, call) ==
  /\ inflight[c].pc = "idle"
  /\ call.op = "createTodo" => nextId["t"] < MaxTodos
  /\ LET Held(r) ==
           IF r.ok
           THEN [pc |-> "writing", call |-> call, read |-> read(Store, "todos"),
                 toWrite |-> read(r.st, "todos"), ok |-> FALSE, result |-> r.result]
           ELSE [pc |-> "returned", call |-> call, read |-> read(Store, "todos"),
                 toWrite |-> Null, ok |-> FALSE, result |-> 0]
     IN inflight' = [inflight EXCEPT ![c] = Held(ServiceCall(Store, call))]
  /\ nextId' = IF call.op = "createTodo" THEN [nextId EXCEPT !["t"] = @ + 1] ELSE nextId
  /\ UNCHANGED <<appData, envVars, server, localStorage, now, browserNotifications, written,
                 lastOp>>

EndCall(c) ==
  /\ inflight[c].pc = "writing"
  /\ LET Done(r) ==
           /\ server' = r.st.server
           /\ localStorage' = r.st.localStorage
           /\ inflight' = [inflight EXCEPT ![c].pc = "returned", ![c].ok = r.ok]
     IN Done(Commit(Store, inflight[c].call, inflight[c].toWrite, inflight[c].result))
  /\ UNCHANGED <<appData, envVars, now, nextId, browserNotifications, written, lastOp>>

\* The caller goes on and may call again.
CallerContinues(c) ==
  /\ inflight[c].pc = "returned"
  /\ inflight' = [inflight EXCEPT ![c] = Idle]
  /\ UNCHANGED <<appData, envVars, server, localStorage, now, nextId, browserNotifications,
                 written, lastOp>>

NextOverlap ==
  \/ \E c \in Callers : \E call \in TodoCalls : BeginCall(c, call)
  \/ \E c \in Callers : EndCall(c)
  \/ \E c \in Callers : CallerContinues(c)

SpecOverlap == InitWorking /\ [][NextOverlap]_vars

\* The todo a successful createTodo of caller c returned is stored.
CreatedIsStored(c) ==
  \E i \in 1..Len(StoredTodos) : StoredTodos[i].id = inflight[c].result.id

BothCreated ==
  \A c \in Callers :
    /\ inflight[c].pc = "returned" /\ inflight[c].ok
    /\ inflight[c].call.op = "createTodo"

\* C23: when two createTodo calls that read the same collection (the second
\* read before the first wrote) have both returned successfully, the stored
\* collection does not hold both new todos: one update is lost.
C23_LostUpdate ==
  (BothCreated /\ inflight["a"].read = inflight["b"].read)
  => ~(CreatedIsStored("a") /\ CreatedIsStored("b"))

\* Both calls returned their new todo and the collection holds one todo.
C23_Witness ==
  /\ BothCreated
  /\ inflight["a"].result.id # inflight["b"].result.id
  /\ Len(StoredTodos) = 1

(***************************************************************************)
(* The useTodos hook with calls that overlap.  A fetch is the step that    *)
(* reads the collection (getTodos) and the step after the await that sets  *)
(* the list; a mutation is the service call and the step after the await   *)
(* that changes the list, or sets the error and throws.  The service call  *)
(* itself is one step here.                                                *)
(***************************************************************************)
HookCalls ==
  {[op |-> "addTodo", args |-> <<todoData>>] :
     todoData \in PendingTodoInputs \cup {[t EXCEPT !.title = " "] : t \in PendingTodoInputs}}
    \cup {[op |-> "updateTodo", args |-> <<[id |-> id, title |-> title]>>] :
            id \in TodoIds, title \in {"b", " "}}
    \cup {[op |-> "deleteTodo", args |-> <<id>>] : id \in TodoIds}
    \cup {[op |-> "updateTodoStatus", args |-> <<id, "completed">>] : id \in TodoIds}

HookService(st, call) ==
  CASE call.op = "addTodo" -> createTodo(st, call.args[1], 0)
    [] call.op = "updateTodo" -> updateTodo(st, call.args[1].id, call.args[1])
    [] call.op = "deleteTodo" -> deleteTodo(st, call.args[1])
    [] call.op = "updateTodoStatus" -> updateTodoStatus(st, call.args[1], call.args[2])

HookMessage(op) ==
  CASE op = "addTodo" -> "Failed to add todo"
    [] op = "updateTodo" -> "Failed to update todo"
    [] op = "deleteTodo" -> "Failed to delete todo"
    [] op = "updateTodoStatus" -> "Failed to update todo status"

\* The functional update setTodos((prev) => ...) of each mutation.
HookApplied(prev, call, result) ==
  CASE call.op = "addTodo" -> Append(prev, result)
    [] call.op = "updateTodo" -> ReplaceTodo(prev, result)
    [] call.op = "deleteTodo" -> WithoutId(prev, call.args[1])
    [] call.op = "updateTodoStatus" ->
         [i \in 1..Len(prev) |-> IF prev[i].id = call.args[1] THEN result ELSE prev[i]]

\* A hook that shows the submitted todo of an updateTodo whatever the outcome.
HookSettled_Optimistic(state, call, ok, result) ==
  [state EXCEPT
     !.todos = IF call.op = "updateTodo"
               THEN ReplaceTodo(@, IF ok THEN result ELSE call.args[1])
               ELSE IF ok THEN HookApplied(@, call, result) ELSE @,
     !.error = IF ok THEN @ ELSE HookMessage(call.op)]

\* The hook's state after the await of the service call: the list changed
\* when the call returned, the error set when it threw.
HookSettled(state, call, ok, result) ==
  IF ok THEN [state EXCEPT !.todos = HookApplied(@, call, result)]
  ELSE [state EXCEPT !.error = HookMessage(call.op)]

HookFetchBegin(c) ==
  /\ inflight[c].pc = "idle"
  /\ appData' = [appData EXCEPT !.todoState.loading = TRUE, !.todoState.error = NoError]
  /\ inflight' = [inflight EXCEPT ![c] = [Idle EXCEPT !.pc = "fetching",
                                                      !.read = read(Store, "todos")]]
  /\ UNCHANGED <<envVars, server, localStorage, now, nextId, browserNotifications, written,
                 lastOp>>

HookFetchEnd(c) ==
  /\ inflight[c].pc = "fetching"
  /\ appData' = [appData EXCEPT !.todoState.todos = inflight[c].read.items,
                                !.todoState.loading = FALSE]
  /\ inflight' = [inflight EXCEPT ![c] = Idle]
  /\ UNCHANGED <<envVars, server, localStorage, now, nextId, browserNotifications, written,
                 lastOp>>

HookMutationBegin(c, call) ==
  /\ inflight[c].pc = "idle"
  /\ call.op = "addTodo" => nextId["t"] < MaxTodos
  /\ appData' = [appData EXCEPT !.todoState.error = NoError]
  /\ LET Called(r) ==
           /\ server' = r.st.server
           /\ localStorage' = r.st.localStorage
           /\ inflight' = [inflight EXCEPT ![c] = [Idle EXCEPT !.pc = "settling",
                                                               !.call = call,
                                                               !.ok = r.ok,
                                                               !.result = r.result]]
     IN Called(HookService(Store, call))
  /\ nextId' = IF call.op = "addTodo" /\ validateTodo(call.args[1]) = ""
               THEN [nextId EXCEPT !["t"] = @ + 1] ELSE nextId
  /\ UNCHANGED <<envVars, now, browserNotifications, written, lastOp>>

\* After the await: the list is changed and the call returns, or the error
\* is set and the call throws (pc returned, ok false).
HookMutationEnd(c) ==
  /\ inflight[c].pc = "settling"
  /\ appData' = [appData EXCEPT
                   !.todoState = HookSettled(@, inflight[c].call, inflight[c].ok,
                                             inflight[c].result)]
  /\ inflight' = [inflight EXCEPT ![c].pc = "returned"]
  /\ UNCHANGED <<envVars, server, localStorage, now, nextId, browserNotifications, written,
                 lastOp>>

NextHook ==
  \/ \E c \in Callers : HookFetchBegin(c)
  \/ \E c \in Callers : HookFetchEnd(c)
  \/ \E c \in Callers : \E call \in HookCalls : HookMutationBegin(c, call)
  \/ \E c \in Callers : HookMutationEnd(c)
  \/ \E c \in Callers : CallerContinues(c)

SpecHook == InitWorking /\ [][NextHook]_vars

(***************************************************************************)
(* Properties of the useTodos hook.                                        *)
(***************************************************************************)
Quiescent == \A c \in Callers : inflight[c].pc \in {"idle", "returned"}

Records(items) == {items[i] : i \in 1..Len(items)}

\* C24: in every state where no fetch and no hook mutation is in flight, the
\* hook's list holds exactly the records of the stored todos collection,
\* also when a fetch overlaps an addTodo, updateTodo or deleteTodo.
C24_HookCacheMatchesStore ==
  Quiescent => /\ Records(appData.todoState.todos) = Records(StoredTodos)
               /\ Len(appData.todoState.todos) = Len(StoredTodos)

\* C25: when the service rejects a hook mutation (addTodo, updateTodo,
\* deleteTodo, updateTodoStatus) with a validation or not-found error, the
\* service call leaves the stored collection as it was, and the hook leaves
\* its list as it was, sets its error and throws to the caller.
C25_NoPartialApply ==
  [][\A c \in Callers :
       /\ (inflight[c].pc = "idle" /\ inflight'[c].pc = "settling" /\ ~inflight'[c].ok)
            => /\ server' = server /\ localStorage' = localStorage
               /\ appData'.todoState.todos = appData.todoState.todos
       /\ (inflight[c].pc = "settling" /\ inflight'[c].pc = "returned" /\ ~inflight[c].ok)
            => /\ server' = server /\ localStorage' = localStorage
               /\ appData'.todoState.todos = appData.todoState.todos
               /\ appData'.todoState.error # NoError
               /\ ~inflight'[c].ok]_vars

\* An updateTodo with a blank title of a todo the hook shows was rejected.
C25_Witness ==
  \E c \in Callers :
    /\ inflight[c].pc = "returned" /\ ~inflight[c].ok
    /\ inflight[c].call.op = "updateTodo"
    /\ findIndex(appData.todoState.todos, inflight[c].call.args[1].id) # 0
    /\ findIndex(StoredTodos, inflight[c].call.args[1].id) # 0
    /\ appData.todoState.error = "Failed to update todo"

(***************************************************************************)
(* The storage gateway without the local fallback.                         *)
(***************************************************************************)
ServerOnly == useServerStorage /\ ~fallbackToLocalStorage

\* The empty defaults of the collections and of the settings singleton.
EmptyDefault(entity) == IF entity = "settings" THEN DefaultSettings ELSE Arr(<<>>)

\* C26: with server storage enabled and the local fallback disabled, a write
\* whose server call fails throws "Failed to save <entity> data" and leaves
\* localStorage (and the server's files) as they were, while a read whose
\* server call fails does not throw and returns the entity's empty default.
C26_ServerOnlyFailures ==
  [][(ServerOnly /\ ~serverUp /\ serverUp' = serverUp)
     => /\ lastOp'.op = "write"
             => /\ ~lastOp'.ok
                /\ lastOp'.error = "Failed to save " \o lastOp'.args[1] \o " data"
                /\ localStorage' = localStorage
                /\ server' = server
        /\ (lastOp'.op = "read" /\ lastOp'.args[1] \in CollectionEntities \cup {"settings"})
             => /\ lastOp'.ok
                /\ lastOp'.result.data = EmptyDefault(lastOp'.args[1])]_vars

\* A write of todos was refused while the server, which holds an earlier
\* value of todos, is down.
C26_Witness ==
  /\ ServerOnly /\ ~serverUp
  /\ lastOp.op = "write" /\ lastOp.args[1] = "todos" /\ ~lastOp.ok
  /\ Has(server, "todos")
  /\ localStorage = EmptyMap

(***************************************************************************)
(* The project service with todos that are created with or without a       *)
(* projectId.                                                              *)
(***************************************************************************)
ProjectTodoInputs ==
  {[title |-> "a", description |-> Undefined, status |-> status, priority |-> "medium",
    dueDate |-> UndefinedDate, projectId |-> projectId] :
     status \in {"pending", "completed"}, projectId \in {Undefined, "p1"}}

NextProgress ==
  \/ \E todoData \in ProjectTodoInputs : CreateTodo(todoData, 0)
  \/ \E projectData \in ProjectInputs : CreateProject(projectData)
  \/ \E id \in TodoIds : \E status \in {"pending", "completed"} : UpdateTodoStatus(id, status)
  \/ \E projectId \in ProjectIds : \E todoId \in TodoIds : AddTodoToProject(projectId, todoId)
  \/ \E projectId \in ProjectIds : \E todoId \in TodoIds :
       RemoveTodoFromProject(projectId, todoId)
  \/ \E projectId \in ProjectIds : UpdateProjectProgress(projectId)

SpecProgress == InitWorking /\ [][NextProgress]_vars

\* C27: the progress of every stored project is an integer between 0 and
\* 100 inclusive.
C27_ProgressIsPercentage ==
  \A i \in 1..Len(StoredProjects) : StoredProjects[i].progress \in 0..100

(***************************************************************************)
(* Membership changes and deletes of todos and projects.                   *)
(***************************************************************************)
NextIntegrity ==
  \/ \E todoData \in PendingTodoInputs : CreateTodo(todoData, 0)
  \/ \E projectData \in ProjectInputs : CreateProject(projectData)
  \/ \E projectId \in ProjectIds : \E todoId \in TodoIds : AddTodoToProject(projectId, todoId)
  \/ \E projectId \in ProjectIds : \E todoId \in TodoIds :
       RemoveTodoFromProject(projectId, todoId)
  \/ \E id \in TodoIds : DeleteTodo(id)
  \/ \E id \in ProjectIds : DeleteProject(id)

SpecIntegrity == InitWorking /\ [][NextIntegrity]_vars

\* C28: every id in a stored project's todoIds is the id of a stored todo,
\* and every stored todo's projectId, when set, is the id of a stored
\* project.
C28_ReferentialIntegrity ==
  /\ \A i \in 1..Len(StoredProjects) :
       \A j \in 1..Len(StoredProjects[i].todoIds) :
         findIndex(StoredTodos, StoredProjects[i].todoIds[j]) # 0
  /\ \A i \in 1..Len(StoredTodos) :
       StoredTodos[i].projectId # Undefined
         => findIndex(StoredProjects, StoredTodos[i].projectId) # 0

(***************************************************************************)
(* Overlapping calls of the notification service.  A call reads the        *)
(* notifications and computes the array to store; after its await it       *)
(* writes that array and returns.                                          *)
(***************************************************************************)
NotificationCalls ==
  {[op |-> "createNotification", args |-> <<notification>>] :
     notification \in {n \in NotificationInputs : n.priority = "medium"}}
    \cup {[op |-> "markAsRead", args |-> <<id>>] : id \in NotificationIds}
    \cup {[op |-> "markAllAsRead", args |-> <<>>]}
    \cup {[op |-> "deleteNotification", args |-> <<id>>] : id \in NotificationIds}

\* The call on the store st, as one step; notifications are created at noon.
NotificationCall(st, call) ==
  CASE call.op = "createNotification" -> createNotification(st, call.args[1], 720)
    [] call.op = "markAsRead" -> markAsRead(st, call.args[1])
    [] call.op = "markAllAsRead" -> markAllAsRead(st)
    [] call.op = "deleteNotification" -> deleteNotification(st, call.args[1])

BeginNotificationCall(c, call) ==
  /\ inflight[c].pc = "idle"
  /\ call.op = "createNotification" => nextId["m"] < MaxNotifications
  /\ LET Held(r) ==
           IF r.ok
           THEN [pc |-> "writing", call |-> call, read |-> read(Store, "notifications"),
                 toWrite |-> read(r.st, "notifications"), ok |-> FALSE,
                 result |-> r.result]
           ELSE [pc |-> "returned", call |-> call, read |-> read(Store, "notifications"),
                 toWrite |-> Null, ok |-> FALSE, result |-> 0]
     IN inflight' = [inflight EXCEPT ![c] = Held(NotificationCall(Store, call))]
  /\ nextId' = IF call.op = "createNotification" THEN [nextId EXCEPT !["m"] = @ + 1]
               ELSE nextId
  /\ UNCHANGED <<appData, envVars, server, localStorage, now, browserNotifications, written,
                 lastOp>>

\* storageService.write("notifications", ...) with the array the call holds,
\* then the browser notification of a createNotification, then the return.
EndNotificationCall(c) ==
  /\ inflight[c].pc = "writing"
  /\ LET Done(w) ==
           /\ server' = w.st.server
           /\ localStorage' = w.st.localStorage
           /\ inflight' = [inflight EXCEPT ![c].pc = "returned", ![c].ok = ~w.threw]
           /\ browserNotifications' =
                IF ~w.threw /\ inflight[c].call.op = "createNotification"
                   /\ inflight[c].result.shown
                THEN browserNotifications \cup {inflight[c].result.notification.id}
                ELSE browserNotifications
     IN Done(write(Store, "notifications", inflight[c].toWrite))
  /\ UNCHANGED <<appData, envVars, now, nextId, written, lastOp>>

NextNotificationOverlap ==
  \/ \E c \in Callers : \E call \in NotificationCalls : BeginNotificationCall(c, call)
  \/ \E c \in Callers : EndNotificationCall(c)
  \/ \E c \in Callers : CallerContinues(c)

SpecNotificationOverlap == InitWorking /\ [][NextNotificationOverlap]_vars

\* C29: the read flag of a stored notification is monotonic: once it is
\* stored as read (markAsRead or markAllAsRead wrote it and returned), it is
\* read in every later state in which it is still stored, also when calls
\* overlap.
C29_ReadIsMonotonic ==
  [][\A i \in 1..Len(StoredNotifications) :
       \A j \in 1..Len(StoredNotifications') :
         (StoredNotifications[i].read
            /\ (StoredNotifications')[j].id = StoredNotifications[i].id)
         => (StoredNotifications')[j].read]_vars

(***************************************************************************)
(* The preferences that gate a browser notification.                       *)
(***************************************************************************)
\* The preferences most recently saved: what getPreferences returns.
SavedPreferences == getPreferences(Store)

\* C30: a createNotification call decides with the preferences most recently
\* saved through updatePreferences: the browser shows the notification only
\* if those preferences enable notifications, its category and its priority
\* and the time of the call is outside their quiet hours, in server-storage
\* mode as well as in local-storage mode.
C30_GatedBySavedPreferences ==
  (lastOp.op = "createNotification" /\ lastOp.ok) =>
    LET stored == StoredNotifications[Len(StoredNotifications)]
        preferences == SavedPreferences
    IN stored.id \in browserNotifications =>
         /\ preferences.enabled
         /\ preferences.categories[stored.category]
         /\ preferences.priorities[stored.priority]
         /\ ~InQuietHours(preferences, lastOp.args[2])

====
